---- MODULE Spec2Model ----
(***************************************************************************)
(* Ticket engine of vibekit (src/src/utils/ticket.js): the identifier      *)
(* resolver, the frontmatter parser, the field/section mutator and the     *)
(* tickets directory they work on.                                         *)
(*                                                                         *)
(* Text is modelled character by character: a string is a sequence of      *)
(* one-character strings, so that trim, split, join, startsWith and        *)
(* padStart do what the JavaScript methods do.                             *)
(***************************************************************************)
EXTENDS Integers, Sequences, FiniteSets, TLC

VARIABLES
  dirState,   \* .vibe/tickets: "ok", "missing" or "noaccess" (exists, unreadable)
  dir,        \* directory listing order: sequence of [name, text]
  clock,      \* the current instant, in ticks
  pc,         \* per process (one CLI invocation): "start", "resolved", "parsed",
              \* "write", "unlink", "done", or "off" when it is not run
  loc,        \* per process: locals of the invocation in progress
  last        \* per process: the last completed call, its inputs and result

vars == <<dirState, dir, clock, pc, loc, last>>

--------------------------------------------------------------------------
(* Bounds of the model *)

\* the instant of the invocation is one of the ticks 1..MaxClock
MaxClock == 2

--------------------------------------------------------------------------
(* JavaScript strings *)

Chars(str) == [i \in 1..Len(str) |-> SubSeq(str, i, i)]

NL == Chars("\n")[1]

IsSpace(c) == c \in {" ", NL, "\t", "\r"}

RECURSIVE TrimStart(_)
TrimStart(s) ==
  IF Len(s) > 0 /\ IsSpace(s[1]) THEN TrimStart(Tail(s)) ELSE s

RECURSIVE TrimEnd(_)
TrimEnd(s) ==
  IF Len(s) > 0 /\ IsSpace(s[Len(s)]) THEN TrimEnd(SubSeq(s, 1, Len(s) - 1)) ELSE s

\* String.prototype.trim
Trim(s) == TrimEnd(TrimStart(s))

\* String.prototype.startsWith / endsWith
StartsWith(s, p) == Len(p) <= Len(s) /\ SubSeq(s, 1, Len(p)) = p

EndsWith(s, p) == Len(p) <= Len(s) /\ SubSeq(s, Len(s) - Len(p) + 1, Len(s)) = p

\* String.prototype.indexOf for one character: 0-based, -1 when absent
IndexOf(s, c) ==
  IF \E i \in 1..Len(s) : s[i] = c
  THEN (CHOOSE i \in 1..Len(s) : s[i] = c /\ \A j \in 1..(i - 1) : s[j] # c) - 1
  ELSE -1

\* String.prototype.substring(from) and substring(0, to), 0-based
SubstringFrom(s, from) == SubSeq(s, from + 1, Len(s))

SubstringTo(s, to) == SubSeq(s, 1, to)

\* String.prototype.split('\n')
RECURSIVE SplitLines(_)
SplitLines(s) ==
  LET i == IndexOf(s, NL)
  IN  IF i = -1 THEN <<s>>
      ELSE <<SubstringTo(s, i)>> \o SplitLines(SubstringFrom(s, i + 1))

\* Array.prototype.join('\n')
RECURSIVE JoinLines(_)
JoinLines(lines) ==
  IF Len(lines) = 0 THEN <<>>
  ELSE IF Len(lines) = 1 THEN lines[1]
  ELSE lines[1] \o <<NL>> \o JoinLines(Tail(lines))

LowerCase == Chars("abcdefghijklmnopqrstuvwxyz")

UpperCase == Chars("ABCDEFGHIJKLMNOPQRSTUVWXYZ")

\* String.prototype.toUpperCase
ToUpperCase(s) ==
  [i \in 1..Len(s) |->
     IF \E k \in 1..Len(LowerCase) : LowerCase[k] = s[i]
     THEN UpperCase[CHOOSE k \in 1..Len(LowerCase) : LowerCase[k] = s[i]]
     ELSE s[i]]

Digits == {"0", "1", "2", "3", "4", "5", "6", "7", "8", "9"}

\* /^\d+$/.test(s)
IsDigits(s) == Len(s) > 0 /\ \A i \in 1..Len(s) : s[i] \in Digits

\* String.prototype.padStart(n, c)
RECURSIVE PadStart(_, _, _)
PadStart(s, n, c) == IF Len(s) >= n THEN s ELSE PadStart(<<c>> \o s, n, c)

\* Array.prototype.findIndex as a 1-based position, 0 when nothing matches
FirstIndex(seq, Test(_)) ==
  IF \E i \in 1..Len(seq) : Test(seq[i])
  THEN CHOOSE i \in 1..Len(seq) : Test(seq[i]) /\ \A j \in 1..(i - 1) : ~Test(seq[j])
  ELSE 0

--------------------------------------------------------------------------
(* The tickets directory *)

Procs == {1, 2}

\* fs.readdirSync(ticketsDir): the names in listing order
FileNames == [i \in 1..Len(dir) |-> dir[i].name]

\* fs.existsSync(path) for a path in the tickets directory
FileExists(name) == \E i \in 1..Len(dir) : dir[i].name = name

\* fs.readFileSync(path, 'utf8')
FileText(name) == dir[CHOOSE i \in 1..Len(dir) : dir[i].name = name].text

--------------------------------------------------------------------------
(* resolveTicketId *)

TKT == Chars("TKT-")

MD == Chars(".md")

PadWidth == 3

ResNull == [kind |-> "null"]

ResThrow(msg) == [kind |-> "throw", error |-> msg]

\* the id built without padding the number
FullIdUnpadded(cleanInput) == TKT \o cleanInput

\* cleanInput.padStart(3, '0') and the TKT- prefix
FullId(cleanInput) == TKT \o PadStart(cleanInput, PadWidth, "0")

\* the input cleaned without upper-casing it
CleanInputCaseSensitive(input) ==
  LET up == Trim(input)
  IN  IF StartsWith(up, TKT) THEN SubstringFrom(up, Len(TKT)) ELSE up

\* input.toString().trim().toUpperCase(), TKT- removed when it leads
CleanInput(input) ==
  LET up == ToUpperCase(Trim(input))
  IN  IF StartsWith(up, TKT) THEN SubstringFrom(up, Len(TKT)) ELSE up

\* fs.readdirSync(ticketsDir).filter(f => f.endsWith('.md'))
RECURSIVE MdFiles(_)
MdFiles(names) ==
  IF Len(names) = 0 THEN <<>>
  ELSE (IF EndsWith(names[1], MD) THEN <<names[1]>> ELSE <<>>) \o MdFiles(Tail(names))

\* files.find(file => file.startsWith(fullId))
MatchingFile(fullId) ==
  LET files == MdFiles(FileNames)
      k == FirstIndex(files, LAMBDA f : StartsWith(f, fullId))
  IN  IF k = 0 THEN <<>> ELSE files[k]

resolveTicketId(input) ==
  IF Len(input) = 0 THEN ResNull
  ELSE IF dirState = "missing" THEN ResNull
  ELSE IF dirState = "noaccess" THEN ResThrow("Permission denied accessing tickets directory")
  ELSE LET cleanInput == CleanInput(input)
       IN  IF ~IsDigits(cleanInput) THEN ResThrow("Invalid ticket ID format")
           ELSE LET fullId == FullId(cleanInput)
                    matchingFile == MatchingFile(fullId)
                IN  IF Len(matchingFile) > 0
                    THEN [kind |-> "identity", id |-> fullId,
                          file |-> matchingFile, path |-> matchingFile]
                    ELSE ResNull

--------------------------------------------------------------------------
(* parseTicket *)

DELIM == Chars("---")

\* line.indexOf(':'), and the key and value on either side of it
ColonIndex(line) == IndexOf(line, ":")

HeaderKey(line) == Trim(SubstringTo(line, ColonIndex(line)))

HeaderValue(line) == Trim(SubstringFrom(line, ColonIndex(line) + 1))

\* a header line that sets metadata[key]
IsField(line) ==
  /\ Len(Trim(line)) > 0
  /\ ColonIndex(line) > -1
  /\ Len(HeaderKey(line)) > 0

\* a non-blank header line with no colon, or with nothing before it
IsInvalidLine(line) == Len(Trim(line)) > 0 /\ ~IsField(line)

\* the metadata object: a later line with the same key overwrites an earlier one
Metadata(yamlLines) ==
  LET fields == {i \in 1..Len(yamlLines) : IsField(yamlLines[i])}
      keys == {HeaderKey(yamlLines[i]) : i \in fields}
      lastOf(k) == CHOOSE i \in fields :
                     /\ HeaderKey(yamlLines[i]) = k
                     /\ \A j \in fields : HeaderKey(yamlLines[j]) = k => j <= i
  IN  [k \in keys |-> HeaderValue(yamlLines[lastOf(k)])]

\* invalidLines: file line numbers (i + 2 for the 0-based header index i)
RECURSIVE InvalidLinesFrom(_, _)
InvalidLinesFrom(yamlLines, i) ==
  IF i > Len(yamlLines) THEN <<>>
  ELSE (IF IsInvalidLine(yamlLines[i]) THEN <<i + 1>> ELSE <<>>)
       \o InvalidLinesFrom(yamlLines, i + 1)

\* the header index taken for the line number
InvalidLinesByIndex(yamlLines) ==
  [k \in 1..Len(InvalidLinesFrom(yamlLines, 1)) |-> InvalidLinesFrom(yamlLines, 1)[k] - 1]

InvalidLines(yamlLines) == InvalidLinesFrom(yamlLines, 1)

\* metadata.key as a JavaScript truth value: present and not ''
Truthy(metadata, key) == key \in DOMAIN metadata /\ Len(metadata[key]) > 0

\* the closing delimiter found by its trimmed text
YamlEndIndexTrimmed(lines) ==
  IF \E i \in 2..Len(lines) : Trim(lines[i]) = DELIM
  THEN (CHOOSE i \in 2..Len(lines) :
          Trim(lines[i]) = DELIM /\ \A j \in 2..(i - 1) : Trim(lines[j]) # DELIM) - 1
  ELSE -1

\* lines.findIndex((line, index) => index > 0 && line === '---'), 0-based, -1 when absent
YamlEndIndex(lines) ==
  IF \E i \in 2..Len(lines) : lines[i] = DELIM
  THEN (CHOOSE i \in 2..Len(lines) :
          lines[i] = DELIM /\ \A j \in 2..(i - 1) : lines[j] # DELIM) - 1
  ELSE -1

MinLines == 3

\* parseTicket on the text read from the file
ParseText(content, filePath) ==
  IF Len(Trim(content)) = 0 THEN ResThrow("Ticket file is empty")
  ELSE LET lines == SplitLines(content)
       IN  IF Len(lines) < MinLines
           THEN ResThrow("Invalid ticket format: file too short to contain valid frontmatter")
           ELSE IF lines[1] # DELIM
           THEN ResThrow("Invalid ticket format: missing opening YAML frontmatter delimiter (---)")
           ELSE IF YamlEndIndex(lines) = -1
           THEN ResThrow("Invalid ticket format: missing closing YAML frontmatter delimiter (---)")
           ELSE LET yamlEndIndex == YamlEndIndex(lines)
                    yamlLines == SubSeq(lines, 2, yamlEndIndex)
                    contentLines == SubSeq(lines, yamlEndIndex + 2, Len(lines))
                    metadata == Metadata(yamlLines)
                IN  [kind |-> "doc",
                     metadata |-> metadata,
                     yamlLines |-> yamlLines,
                     contentLines |-> contentLines,
                     fullContent |-> content,
                     filePath |-> filePath,
                     invalidLines |-> InvalidLines(yamlLines),
                     warnId |-> ~Truthy(metadata, Chars("id")),
                     warnTitle |-> ~Truthy(metadata, Chars("title"))]

\* parseTicket(filePath): readable is fs.accessSync(filePath, R_OK) succeeding
parseTicket(filePath, readable) ==
  IF ~FileExists(filePath) THEN ResThrow("Ticket file not found")
  ELSE IF ~readable THEN ResThrow("Cannot read ticket file")
  ELSE ParseText(FileText(filePath), filePath)

\* what fs.readFileSync returned to parseTicket, when it got that far
TextRead(filePath, readable) ==
  IF FileExists(filePath) /\ readable THEN <<FileText(filePath)>> ELSE <<>>

--------------------------------------------------------------------------
(* replaceSectionContent, hasSectionContent *)

\* lines.findIndex(line => line && line.trim() === sectionHeader.trim()), 1-based, 0 when absent
SectionIndex(lines, sectionHeader) ==
  FirstIndex(lines, LAMBDA line : Len(line) > 0 /\ Trim(line) = Trim(sectionHeader))

\* lines[i].match(/^##\s+/)
IsSectionStart(line) == Len(line) >= 3 /\ line[1] = "#" /\ line[2] = "#" /\ IsSpace(line[3])

\* the search for the next section started at the header itself
NextSectionIndexFromHeader(lines, sectionIndex) ==
  IF \E i \in sectionIndex..Len(lines) : IsSectionStart(lines[i])
  THEN CHOOSE i \in sectionIndex..Len(lines) :
         /\ IsSectionStart(lines[i])
         /\ \A j \in sectionIndex..(i - 1) : ~IsSectionStart(lines[j])
  ELSE Len(lines) + 1

\* the first section start after the header, lines.length (here Len + 1) when there is none
NextSectionIndex(lines, sectionIndex) ==
  IF \E i \in (sectionIndex + 1)..Len(lines) : IsSectionStart(lines[i])
  THEN CHOOSE i \in (sectionIndex + 1)..Len(lines) :
         /\ IsSectionStart(lines[i])
         /\ \A j \in (sectionIndex + 1)..(i - 1) : ~IsSectionStart(lines[j])
  ELSE Len(lines) + 1

\* newContent.trim() ? ['', newContent.trim(), ''] : ['', '']
NewSectionContent(newContent) ==
  IF Len(Trim(newContent)) > 0 THEN <<<<>>, Trim(newContent), <<>>>> ELSE <<<<>>, <<>>>>

replaceSectionContent(lines, sectionHeader, newContent) ==
  LET sectionIndex == SectionIndex(lines, sectionHeader)
  IN  IF sectionIndex = 0 THEN lines
      ELSE LET nextSectionIndex == NextSectionIndex(lines, sectionIndex)
               before == SubSeq(lines, 1, sectionIndex)
               after == SubSeq(lines, nextSectionIndex, Len(lines))
           IN  before \o NewSectionContent(newContent) \o after

hasSectionContent(lines, sectionHeader) ==
  Len(Trim(sectionHeader)) > 0 /\ SectionIndex(lines, sectionHeader) # 0

--------------------------------------------------------------------------
(* updateTicket *)

\* updates is the object's entries in key order: a sequence of [key, value]
HasKey(updates, key) == \E i \in 1..Len(updates) : updates[i].key = key

Get(updates, key) == updates[CHOOSE i \in 1..Len(updates) : updates[i].key = key].value

\* updates.key as a JavaScript truth value: present and not ''
Given(updates, key) == HasKey(updates, key) /\ Len(Get(updates, key)) > 0

K_slug == Chars("slug")

K_title == Chars("title")

K_id == Chars("id")

K_updated_at == Chars("updated_at")

\* the early return left out
NoUpdatesNever(updates) == FALSE

\* Object.keys(updates).length === 0
NoUpdates(updates) == Len(updates) = 0

\* ticketData.metadata.id || 'TKT-000'
TicketId(ticketData) ==
  IF Truthy(ticketData.metadata, K_id) THEN ticketData.metadata[K_id] ELSE Chars("TKT-000")

\* `${ticketId}-${cleanSlug}.md` joined to the directory of filePath
NewFileName(ticketData, updates) ==
  TicketId(ticketData) \o Chars("-") \o Trim(Get(updates, K_slug)) \o MD

\* the slug stored as given
FullSlugBare(ticketData, updates) == Get(updates, K_slug)

\* `${ticketId}-${updates.slug}`
FullSlug(ticketData, updates) ==
  TicketId(ticketData) \o Chars("-") \o Get(updates, K_slug)

\* cleanTitle.replace(/"/g, '\\"')
RECURSIVE EscapeQuotes(_)
EscapeQuotes(s) ==
  IF Len(s) = 0 THEN <<>>
  ELSE (IF s[1] = "\"" THEN <<"\\", "\"">> ELSE <<s[1]>>) \o EscapeQuotes(Tail(s))

\* /[:\[\]{}|>]/.test(cleanTitle) || cleanTitle.includes('#')
NeedsQuotes(cleanTitle) ==
  \E i \in 1..Len(cleanTitle) : cleanTitle[i] \in {":", "[", "]", "{", "}", "|", ">", "#"}

FormattedTitle(updates) ==
  LET cleanTitle == Trim(Get(updates, K_title))
  IN  IF NeedsQuotes(cleanTitle)
      THEN <<"\"">> \o EscapeQuotes(cleanTitle) \o <<"\"">>
      ELSE cleanTitle

UpdatedAtLine(timestamp) == Chars("updated_at: ") \o timestamp

SlugLine(ticketData, updates) == Chars("slug: ") \o FullSlug(ticketData, updates)

TitleLine(updates) == Chars("title: ") \o FormattedTitle(updates)

IsUpdatedAtLine(line) == StartsWith(line, Chars("updated_at:"))

IsSlugLine(line) == StartsWith(line, Chars("slug:"))

IsTitleLine(line) == StartsWith(line, Chars("title:"))

\* the loop leaving every line but updated_at as it is
RewriteStampOnly(line, ticketData, updates, timestamp) ==
  IF StartsWith(line, Chars("updated_at:")) THEN Chars("updated_at: ") \o timestamp ELSE line

\* one pass of the loop over updatedYamlLines
RewriteLine(line, ticketData, updates, timestamp) ==
  IF IsUpdatedAtLine(line) THEN UpdatedAtLine(timestamp)
  ELSE IF IsSlugLine(line) /\ Given(updates, K_slug) THEN SlugLine(ticketData, updates)
  ELSE IF IsTitleLine(line) /\ Given(updates, K_title) THEN TitleLine(updates)
  ELSE line

\* the flags the loop sets
UpdatedTimestamp(yamlLines) == \E i \in 1..Len(yamlLines) : IsUpdatedAtLine(yamlLines[i])

UpdatedSlug(yamlLines, updates) ==
  /\ Given(updates, K_slug)
  /\ \E i \in 1..Len(yamlLines) : ~IsUpdatedAtLine(yamlLines[i]) /\ IsSlugLine(yamlLines[i])

UpdatedTitle(yamlLines, updates) ==
  /\ Given(updates, K_title)
  /\ \E i \in 1..Len(yamlLines) :
       /\ ~IsUpdatedAtLine(yamlLines[i])
       /\ ~IsSlugLine(yamlLines[i])
       /\ IsTitleLine(yamlLines[i])

\* no updated_at line pushed
MissingTimestampDropped(yamlLines, timestamp) == <<>>

\* the lines pushed after the loop, in the order of the code
MissingTimestamp(yamlLines, timestamp) ==
  IF ~UpdatedTimestamp(yamlLines) THEN <<UpdatedAtLine(timestamp)>> ELSE <<>>

MissingSlug(ticketData, updates) ==
  IF Given(updates, K_slug) /\ ~UpdatedSlug(ticketData.yamlLines, updates)
  THEN <<SlugLine(ticketData, updates)>> ELSE <<>>

MissingTitle(ticketData, updates) ==
  IF Given(updates, K_title) /\ ~UpdatedTitle(ticketData.yamlLines, updates)
  THEN <<TitleLine(updates)>> ELSE <<>>

UpdatedYamlLines(ticketData, updates, timestamp) ==
  [i \in 1..Len(ticketData.yamlLines) |->
     RewriteLine(ticketData.yamlLines[i], ticketData, updates, timestamp)]
  \o MissingTimestamp(ticketData.yamlLines, timestamp)
  \o MissingSlug(ticketData, updates)
  \o MissingTitle(ticketData, updates)

SectionHeader(key) == Chars("## ") \o key

\* the key names a section to replace: key !== 'slug' && updates[key], and the section exists
ReplacesSection(lines, entry) ==
  /\ entry.key # K_slug
  /\ Len(entry.value) > 0
  /\ hasSectionContent(lines, SectionHeader(entry.key))

\* Object.keys(updates).forEach(...) from entry i on: the body lines and updatedSections
RECURSIVE UpdateSections(_, _, _, _)
UpdateSections(lines, done, updates, i) ==
  IF i > Len(updates) THEN [lines |-> lines, updatedSections |-> done]
  ELSE IF ReplacesSection(lines, updates[i])
  THEN UpdateSections(
         replaceSectionContent(lines, SectionHeader(updates[i].key), updates[i].value),
         Append(done, updates[i].key), updates, i + 1)
  ELSE UpdateSections(lines, done, updates, i + 1)

\* the joined text with a newline after the last line
ReconstructedNewlineEnded(yamlLines, contentLines) ==
  JoinLines(<<DELIM>> \o yamlLines \o <<DELIM>> \o contentLines) \o <<NL>>

\* ['---', ...updatedYamlLines, '---', ...newContentLines].join('\n')
Reconstructed(yamlLines, contentLines) ==
  JoinLines(<<DELIM>> \o yamlLines \o <<DELIM>> \o contentLines)

\* the destination never looked at
TargetExistsUnchecked(filePath, newFilePath) == FALSE

\* newFilePath !== filePath && fs.existsSync(newFilePath)
TargetExists(filePath, newFilePath) == newFilePath # filePath /\ FileExists(newFilePath)

\* updateTicket up to the write: what it returns or throws at once, or what it will write
PrepareUpdate(filePath, ticketData, updates, writable, timestamp) ==
  IF NoUpdates(updates)
  THEN [kind |-> "ok", success |-> TRUE, newPath |-> filePath,
        message |-> "No updates to apply"]
  ELSE IF ~FileExists(filePath) THEN ResThrow("Original ticket file not found")
  ELSE IF ~writable THEN ResThrow("Cannot write to ticket file")
  ELSE IF Given(updates, K_slug) /\ Len(Trim(Get(updates, K_slug))) = 0
  THEN ResThrow("Slug cannot be empty")
  ELSE LET newFilePath == IF Given(updates, K_slug)
                          THEN NewFileName(ticketData, updates) ELSE filePath
       IN  IF TargetExists(filePath, newFilePath)
           THEN ResThrow("Target file already exists")
           ELSE LET sections == UpdateSections(ticketData.contentLines, <<>>, updates, 1)
                    yamlLines == UpdatedYamlLines(ticketData, updates, timestamp)
                IN  [kind |-> "write",
                     newFilePath |-> newFilePath,
                     updatedYamlLines |-> yamlLines,
                     newContentLines |-> sections.lines,
                     updatedSections |-> sections.updatedSections,
                     reconstructed |-> Reconstructed(yamlLines, sections.lines)]

\* fs.writeFileSync(name, text): an existing entry keeps its place, a new one lands at position k
WriteFile(name, text, k) ==
  IF FileExists(name)
  THEN [i \in 1..Len(dir) |-> IF dir[i].name = name THEN [name |-> name, text |-> text]
                                ELSE dir[i]]
  ELSE SubSeq(dir, 1, k - 1) \o <<[name |-> name, text |-> text]>> \o SubSeq(dir, k, Len(dir))

\* fs.unlinkSync(name)
RECURSIVE Without(_, _)
Without(entries, name) ==
  IF Len(entries) = 0 THEN <<>>
  ELSE (IF entries[1].name = name THEN <<>> ELSE <<entries[1]>>) \o Without(Tail(entries), name)

--------------------------------------------------------------------------
(* Inputs *)

ResolveInputs ==
  { Chars("7"), Chars("007"), Chars("TKT-007"), Chars("tkt-007"), Chars(" 7 "),
    Chars("1"), Chars("001"), Chars("TKT-001"), Chars("tkt-001"),
    Chars("700"), Chars("999"), Chars("abc"), Chars("TKT-abc"), Chars("TKT-"),
    Chars("  "), <<>> }

E(k, v) == [key |-> Chars(k), value |-> Chars(v)]

UpdateInputs ==
  { <<>>,
    <<E("slug", "new")>>,
    <<E("slug", "foo")>>,
    <<E("slug", " new ")>>,
    <<E("slug", "  ")>>,
    <<E("title", "Hi")>>,
    <<E("title", "a: \"b\"")>>,
    <<E("title", "")>>,
    <<E("updated_at", "never")>>,
    <<E("status", "done")>>,
    <<E("Acceptance Criteria", "- [x] done"), E("Description", "short")>>,
    <<E("slug", "new"), E("title", "Hi"), E("Description", "new text")>> }

SectionNames ==
  { Chars("Description"), Chars("Acceptance Criteria"), Chars("Notes"), Chars("Missing") }

SectionBodies == { Chars("new text"), Chars("  padded  "), Chars("   "), <<>> }

\* new Date().toISOString() at tick t
ToISOString(t) ==
  Chars("2026-01-01T00:00:0") \o <<Chars("0123456789")[t + 1]>> \o Chars(".000Z")

Body ==
  Chars("\n## Description\n\nold text\n\n## Acceptance Criteria\n\n- [ ] x\n")

\* a ticket as `vibe new` writes it
TextStandard ==
  Chars("---\nid: TKT-007\ntitle: Foo\nslug: TKT-007-foo\nstatus: open\n")
  \o Chars("updated_at: ") \o ToISOString(0) \o Chars("\n---\n") \o Body

\* no slug and no updated_at line
TextNoSlug ==
  Chars("---\nid: TKT-007\ntitle: Foo\nstatus: open\n---\n") \o Body

\* keys the parser trims: an indented key, a space before the colon
TextIndented ==
  Chars("---\nid: TKT-007\n  slug: TKT-007-foo\ntitle : Foo\n")
  \o Chars(" updated_at: ") \o ToISOString(0) \o Chars("\n---\n") \o Body

\* the same key on two lines
TextDuplicate ==
  Chars("---\nid: TKT-007\nslug: TKT-007-foo\ntitle: Foo\nslug: TKT-007-bar\n")
  \o Chars("updated_at: ") \o ToISOString(0) \o Chars("\nupdated_at: later\n---\n") \o Body

\* no id; a blank line, a line with no colon and a line with no key in the header
TextNoId ==
  Chars("---\ntitle: Foo\n\nnot a field\n: no key\n---\n") \o Body

\* an id line with no value
TextEmptyId ==
  Chars("---\nid:\ntitle: Foo\nslug: foo\n---\n") \o Body

\* a header line that is not exactly '---', and a '---' line in the body
TextNearDelim ==
  Chars("---\nid: TKT-007\n--- \ntitle: Foo\n ---\n---\n## Description\n---\nrule above\n")

\* an indented section header, a '##' line with no space, a section header with a
\* tab, a last section with no body
TextSections ==
  Chars("---\nid: TKT-007\ntitle: Foo\n---\nintro\n  ## Description  \nfirst\n##Notes\n")
  \o Chars("second\n## Description\nthird\n##\tNotes\nfourth\n## Acceptance Criteria")

\* the header closed by '--- ' with a trailing space, and by nothing else
TextLooseClosing == Chars("---\nid: TKT-007\ntitle: Foo\n--- \n## Description\n")

TextTwoLines == Chars("---\nid: TKT-007")

TextNoOpening == Chars("id: TKT-007\n---\n---\n")

TextNoClosing == Chars("---\nid: TKT-007\ntitle: Foo\n")

TextBlank == Chars("\n\n\n")

TicketTexts ==
  { TextStandard, TextNoSlug, TextIndented, TextDuplicate, TextNoId, TextEmptyId,
    TextNearDelim,
    TextSections, TextLooseClosing, TextTwoLines, TextNoOpening, TextNoClosing, TextBlank }

\* the ticket the operations work on
SubjectName == Chars("TKT-007-foo.md")

\* other entries the directory may hold beside it
OtherFiles ==
  { [name |-> Chars("TKT-007-new.md"), text |-> TextNoSlug],
    [name |-> Chars("TKT-007-bar.md"), text |-> TextStandard],
    [name |-> Chars("TKT-700-x.md"), text |-> TextStandard],
    [name |-> Chars("TKT-001-a.md"), text |-> TextStandard],
    [name |-> Chars("TKT-001.txt"), text |-> TextBlank] }

\* the subject alone with every text; with a neighbour, in either listing order
InitialDirs ==
  LET subjects == {[name |-> SubjectName, text |-> t] : t \in TicketTexts}
      paired == {[name |-> SubjectName, text |-> t] : t \in {TextStandard, TextNoId}}
  IN  {<<s>> : s \in subjects}
      \cup {<<s, o>> : s \in paired, o \in OtherFiles}
      \cup {<<o, s>> : s \in paired, o \in OtherFiles}
      \cup {<<o>> : o \in OtherFiles}

UnreadableDirs == {<<[name |-> SubjectName, text |-> TextStandard]>>}

--------------------------------------------------------------------------
(* Actions *)

Idle == [op |-> "none"]

Resolve(p, input) ==
  /\ pc[p] = "start"
  /\ LET r == resolveTicketId(input)
     IN  /\ last' = [last EXCEPT ![p] = [op |-> "resolve", input |-> input, result |-> r]]
         /\ pc' = [pc EXCEPT ![p] = IF r.kind = "identity" THEN "resolved" ELSE "done"]
         /\ loc' = [loc EXCEPT ![p] = IF r.kind = "identity" THEN [path |-> r.path] ELSE Idle]
  /\ UNCHANGED <<dirState, dir, clock>>

Parse(p, readable) ==
  /\ pc[p] = "resolved"
  /\ LET r == parseTicket(loc[p].path, readable)
     IN  /\ last' = [last EXCEPT ![p] =
                       [op |-> "parse", path |-> loc[p].path, readable |-> readable,
                        read |-> TextRead(loc[p].path, readable), result |-> r]]
         /\ pc' = [pc EXCEPT ![p] = IF r.kind = "doc" THEN "parsed" ELSE "done"]
         /\ loc' = [loc EXCEPT ![p] =
                      IF r.kind = "doc" THEN [path |-> loc[p].path, ticketData |-> r]
                      ELSE Idle]
  /\ UNCHANGED <<dirState, dir, clock>>

\* replaceSectionContent applied to the parsed body
ReplaceSection(p, name, newContent) ==
  /\ pc[p] = "parsed"
  /\ last' = [last EXCEPT ![p] =
                [op |-> "replaceSection",
                 lines |-> loc[p].ticketData.contentLines,
                 name |-> name,
                 newContent |-> newContent,
                 result |-> replaceSectionContent(loc[p].ticketData.contentLines,
                                                  SectionHeader(name), newContent)]]
  /\ pc' = [pc EXCEPT ![p] = "done"]
  /\ loc' = [loc EXCEPT ![p] = Idle]
  /\ UNCHANGED <<dirState, dir, clock>>

\* the record of a finished updateTicket call
Finished(p, call, result) ==
  /\ last' = [last EXCEPT ![p] =
                [op |-> "update", filePath |-> call.path, ticketData |-> call.ticketData,
                 updates |-> call.updates, timestamp |-> call.timestamp,
                 before |-> call.before, plan |-> call.plan, result |-> result]]
  /\ pc' = [pc EXCEPT ![p] = "done"]
  /\ loc' = [loc EXCEPT ![p] = Idle]

\* updateTicket from its entry to just before fs.writeFileSync
UpdateBegin(p, updates, writable) ==
  /\ pc[p] = "parsed"
  /\ UNCHANGED <<dirState, dir, clock>>
  /\ LET timestamp == ToISOString(clock)
         plan == PrepareUpdate(loc[p].path, loc[p].ticketData, updates, writable, timestamp)
         call == [path |-> loc[p].path, ticketData |-> loc[p].ticketData,
                  updates |-> updates, timestamp |-> timestamp,
                  before |-> dir, plan |-> plan]
     IN  IF plan.kind = "write"
         THEN /\ pc' = [pc EXCEPT ![p] = "write"]
              /\ loc' = [loc EXCEPT ![p] = call]
              /\ UNCHANGED last
         ELSE Finished(p, call, plan)

\* the result with renamed always false
SuccessNotRenamed(call) ==
  [kind |-> "ok", success |-> TRUE, newPath |-> call.plan.newFilePath,
   updatedSections |-> call.plan.updatedSections, renamed |-> FALSE]

Success(call) ==
  [kind |-> "ok", success |-> TRUE, newPath |-> call.plan.newFilePath,
   updatedSections |-> call.plan.updatedSections,
   renamed |-> (call.plan.newFilePath # call.path)]

\* fs.writeFileSync(newFilePath, reconstructed): done, refused, or failed part-way
UpdateWrite(p, outcome, k) ==
  /\ pc[p] = "write"
  /\ UNCHANGED <<dirState, clock>>
  /\ LET call == loc[p]
     IN  CASE outcome = "ok" ->
                /\ dir' = WriteFile(call.plan.newFilePath, call.plan.reconstructed, k)
                /\ IF call.plan.newFilePath # call.path
                   THEN /\ pc' = [pc EXCEPT ![p] = "unlink"]
                        /\ UNCHANGED <<loc, last>>
                   ELSE Finished(p, call, Success(call))
           [] outcome = "refused" ->
                /\ UNCHANGED dir
                /\ Finished(p, call, ResThrow("Failed to write updated ticket"))
           [] outcome = "partial" ->
                /\ dir' = WriteFile(call.plan.newFilePath, <<>>, k)
                /\ Finished(p, call, ResThrow("Failed to write updated ticket"))

\* if (fs.existsSync(filePath)) fs.unlinkSync(filePath), a failure only warned about
UpdateUnlink(p, removed) ==
  /\ pc[p] = "unlink"
  /\ UNCHANGED <<dirState, clock>>
  /\ dir' = IF removed THEN Without(dir, loc[p].path) ELSE dir
  /\ Finished(p, loc[p], Success(loc[p]))

Init ==
  /\ dirState \in {"ok", "missing", "noaccess"}
  /\ dir \in CASE dirState = "ok" -> InitialDirs
              [] dirState = "missing" -> {<<>>}
              [] dirState = "noaccess" -> UnreadableDirs
  /\ clock \in 1..MaxClock
  /\ pc = [p \in Procs |-> IF p = 1 THEN "start" ELSE "off"]
  /\ loc = [p \in Procs |-> Idle]
  /\ last = [p \in Procs |-> Idle]

Next ==
  \E p \in Procs :
    \/ \E input \in ResolveInputs : Resolve(p, input)
    \/ \E readable \in BOOLEAN : Parse(p, readable)
    \/ \E name \in SectionNames, newContent \in SectionBodies :
         ReplaceSection(p, name, newContent)
    \/ \E updates \in UpdateInputs, writable \in BOOLEAN : UpdateBegin(p, updates, writable)
    \/ \E outcome \in {"ok", "refused", "partial"}, k \in 1..(Len(dir) + 1) :
         UpdateWrite(p, outcome, k)
    \/ \E removed \in BOOLEAN : UpdateUnlink(p, removed)

Spec == Init /\ [][Next]_vars

--------------------------------------------------------------------------
(* Properties of parseTicket *)

Calls(op) == {p \in Procs : last[p].op = op}

\* C4: parseTicket fails exactly when the text split on newlines has fewer than 3
\* lines, or its first line is not exactly '---', or no later line is exactly '---';
\* otherwise the header lines are the lines strictly between the first line and the
\* first later '---' line (none of them is '---') and the body lines are all the
\* lines after that delimiter.
ParseFailsExactlyOnBadDelimiters ==
  \A p \in Calls("parse") :
    Len(last[p].read) = 1 =>
      LET lines == SplitLines(last[p].read[1])
          closing == {i \in 2..Len(lines) : lines[i] = DELIM}
          r == last[p].result
      IN  /\ (r.kind = "throw") <=>
               (Len(lines) < 3 \/ lines[1] # DELIM \/ closing = {})
          /\ (r.kind # "throw") =>
               \E k \in closing :
                 /\ \A j \in closing : k <= j
                 /\ r.kind = "doc"
                 /\ r.yamlLines = SubSeq(lines, 2, k - 1)
                 /\ r.contentLines = SubSeq(lines, k + 1, Len(lines))
                 /\ \A i \in 1..Len(r.yamlLines) : r.yamlLines[i] # DELIM

\* C4 happens: a text is parsed whose header holds a line that is '---' only after
\* trimming, and whose body holds a '---' line
ParsedNearDelimiter ==
  \E p \in Calls("parse") :
    /\ last[p].result.kind = "doc"
    /\ \E i \in 1..Len(last[p].result.yamlLines) :
         Trim(last[p].result.yamlLines[i]) = DELIM
    /\ \E i \in 1..Len(last[p].result.contentLines) :
         last[p].result.contentLines[i] = DELIM

--------------------------------------------------------------------------
(* Properties of resolveTicketId *)

\* the digits of a well-formed identifier: digits, or TKT- (any case) and digits
WellFormed(input) ==
  LET t == Trim(input)
  IN  \/ IsDigits(t)
      \/ /\ Len(t) > 4
         /\ ToUpperCase(SubSeq(t, 1, 4)) = Chars("TKT-")
         /\ IsDigits(SubSeq(t, 5, Len(t)))

DigitsOf(input) ==
  LET t == Trim(input)
  IN  IF IsDigits(t) THEN t ELSE SubSeq(t, 5, Len(t))

\* TKT- and the digits, zero-padded to three
CanonicalId(digits) ==
  Chars("TKT-") \o
    (IF Len(digits) = 1 THEN Chars("00") \o digits
     ELSE IF Len(digits) = 2 THEN Chars("0") \o digits
     ELSE digits)

TicketNumbers == {Chars("7"), Chars("1"), Chars("700"), Chars("999"), Chars("42")}

\* the four spellings of ticket number n: 7, 007, TKT-007, tkt-007
Spellings(n) ==
  { n,
    SubSeq(CanonicalId(n), 5, Len(CanonicalId(n))),
    CanonicalId(n),
    Chars("tkt-") \o SubSeq(CanonicalId(n), 5, Len(CanonicalId(n))) }

\* C5: for every ticket number and every state of the tickets directory,
\* resolveTicketId gives the same result (the same identity, or null, or the same
\* error) for the four spellings of the number.
ResolverEquivalence ==
  \A p \in Calls("resolve") :
    \A n \in TicketNumbers :
      last[p].input \in Spellings(n) =>
        \A other \in Spellings(n) : resolveTicketId(other) = last[p].result

\* C5 happens: the lower-case spelling resolved to the file of ticket 7
ResolvedLowerCaseSpelling ==
  \E p \in Calls("resolve") :
    /\ last[p].input = Chars("tkt-007")
    /\ last[p].result.kind = "identity"
    /\ last[p].result.file = SubjectName

FormatError == ResThrow("Invalid ticket ID format")

\* C6: for every non-empty input whose trimmed, upper-cased text, after a leading
\* 'TKT-' is stripped, is not entirely digits, resolveTicketId throws the 'Invalid
\* ticket ID format' error in every state of the tickets directory; and the format
\* error is never produced for a well-formed identifier.
FormatErrorInEveryDirectoryState ==
  \A p \in Calls("resolve") :
    LET up == ToUpperCase(Trim(last[p].input))
        rest == IF StartsWith(up, Chars("TKT-")) THEN SubSeq(up, 5, Len(up)) ELSE up
    IN  /\ (Len(last[p].input) > 0 /\ ~IsDigits(rest)) => last[p].result = FormatError
        /\ WellFormed(last[p].input) => last[p].result # FormatError

NoMatch(id) == \A i \in 1..Len(dir) : ~StartsWith(dir[i].name, id)

\* C7 as claimed: for every well-formed identifier, resolveTicketId returns null when
\* the tickets directory does not exist or contains no file whose name starts with
\* the canonical id.
NullWheneverNoMatch ==
  \A p \in Calls("resolve") :
    (/\ WellFormed(last[p].input)
     /\ (dirState = "missing" \/ NoMatch(CanonicalId(DigitsOf(last[p].input)))))
    => last[p].result = ResNull

\* C7 as amended: for every well-formed identifier, resolveTicketId returns null when
\* the tickets directory does not exist, or can be listed and contains no file whose
\* name starts with the canonical id; when the directory exists but cannot be read
\* it throws the permission error.
NullWhenMissingOrListedWithoutMatch ==
  \A p \in Calls("resolve") :
    WellFormed(last[p].input) =>
      /\ (dirState = "missing" \/
          (dirState = "ok" /\ NoMatch(CanonicalId(DigitsOf(last[p].input)))))
         => last[p].result = ResNull
      /\ dirState = "noaccess" =>
           last[p].result = ResThrow("Permission denied accessing tickets directory")

\* C7 happens: a one-digit number was looked up in a listed directory that holds
\* only a ticket whose number starts with that digit
LookedUpAbsentNumber ==
  \E p \in Calls("resolve") :
    /\ last[p].input = Chars("7")
    /\ dirState = "ok"
    /\ Len(dir) = 1
    /\ dir[1].name = Chars("TKT-700-x.md")
    /\ last[p].result = ResNull

--------------------------------------------------------------------------
(* Properties of replaceSectionContent *)

\* the smallest member of a non-empty set of numbers
Least(S) == CHOOSE i \in S : \A j \in S : i <= j

\* C3 as claimed: if no line's trimmed text is '## N' the body comes back unchanged;
\* otherwise the result is the lines up to and including N's header, one blank line,
\* the new body, one blank line, then every line from the next '## '-prefixed line on.
SectionFramedByGivenBody ==
  \A p \in Calls("replaceSection") :
    LET lines == last[p].lines
        heads == {i \in 1..Len(lines) : Trim(lines[i]) = Chars("## ") \o last[p].name}
    IN  IF heads = {} THEN last[p].result = lines
        ELSE LET h == Least(heads)
                 later == {i \in (h + 1)..Len(lines) : StartsWith(lines[i], Chars("## "))}
                 n == IF later = {} THEN Len(lines) + 1 ELSE Least(later)
             IN  last[p].result =
                   SubSeq(lines, 1, h) \o <<<<>>, last[p].newContent, <<>>>>
                   \o SubSeq(lines, n, Len(lines))

\* C3 as amended: if no line's trimmed text is '## N' the body comes back unchanged;
\* otherwise the result is the lines up to and including N's first header, one blank
\* line, the trimmed new body, one blank line (two blank lines alone when the trimmed
\* body is empty), then every line from the next line that starts with '##' and a
\* whitespace character on, unchanged.
SectionFramedByTrimmedBody ==
  \A p \in Calls("replaceSection") :
    LET lines == last[p].lines
        heads == {i \in 1..Len(lines) : Trim(lines[i]) = Chars("## ") \o last[p].name}
        body == Trim(last[p].newContent)
        framed == IF Len(body) = 0 THEN <<<<>>, <<>>>> ELSE <<<<>>, body, <<>>>>
    IN  IF heads = {} THEN last[p].result = lines
        ELSE LET h == Least(heads)
                 later == {i \in (h + 1)..Len(lines) :
                             /\ Len(lines[i]) > 2
                             /\ SubSeq(lines[i], 1, 2) = Chars("##")
                             /\ lines[i][3] \in {" ", "\t"}}
                 n == IF later = {} THEN Len(lines) + 1 ELSE Least(later)
             IN  last[p].result = SubSeq(lines, 1, h) \o framed \o SubSeq(lines, n, Len(lines))

\* C3 happens: Description was replaced in a body that also holds Acceptance
\* Criteria, and the body changed
ReplacedDescriptionBesideCriteria ==
  \E p \in Calls("replaceSection") :
    /\ last[p].name = Chars("Description")
    /\ last[p].newContent = Chars("  padded  ")
    /\ last[p].result # last[p].lines
    /\ \E i \in 1..Len(last[p].lines) : last[p].lines[i] = Chars("## Acceptance Criteria")
    /\ \E i \in 1..Len(last[p].lines) : last[p].lines[i] = Chars("old text")

--------------------------------------------------------------------------
(* Properties of updateTicket *)

\* the header lines with every line that starts 'updated_at:' set to the timestamp,
\* or the timestamp line added after them when there is none
Refreshed(yamlLines, timestamp) ==
  LET stamp == Chars("updated_at: ") \o timestamp
      isStamp(line) == StartsWith(line, Chars("updated_at:"))
  IN  IF \E i \in 1..Len(yamlLines) : isStamp(yamlLines[i])
      THEN [i \in 1..Len(yamlLines) |-> IF isStamp(yamlLines[i]) THEN stamp ELSE yamlLines[i]]
      ELSE Append(yamlLines, stamp)

TextOf(yamlLines, contentLines) ==
  JoinLines(<<Chars("---")>> \o yamlLines \o <<Chars("---")>> \o contentLines)

\* the header lines of the file now at a path
HeaderOf(name) == ParseText(FileText(name), name).yamlLines

\* C1 as claimed: updateTicket with an empty updates map yields text identical to the
\* original except for the updated_at line, which is refreshed to the current instant.
EmptyUpdateRefreshesTimestamp ==
  \A p \in Calls("update") :
    (Len(last[p].updates) = 0 /\ last[p].result.kind = "ok") =>
      /\ FileExists(last[p].result.newPath)
      /\ FileText(last[p].result.newPath) =
           TextOf(Refreshed(last[p].ticketData.yamlLines, last[p].timestamp),
                  last[p].ticketData.contentLines)

\* the update names no header field and no section of the body
TouchesNothing(u) ==
  \A i \in 1..Len(u.updates) :
    \/ Len(u.updates[i].value) = 0
    \/ /\ u.updates[i].key \notin {Chars("slug"), Chars("title")}
       /\ \A j \in 1..Len(u.ticketData.contentLines) :
            Trim(u.ticketData.contentLines[j]) # Chars("## ") \o u.updates[i].key

\* C1 as amended: updateTicket with an empty updates map reports success and writes
\* nothing, so the text stays identical to the original, the updated_at line
\* included; updated_at is refreshed only when the map is not empty, and an update
\* that then names no header field and no section leaves the rest of the text
\* identical.
EmptyUpdateWritesNothing ==
  \A p \in Calls("update") :
    /\ Len(last[p].updates) = 0 =>
         /\ last[p].result.kind = "ok"
         /\ last[p].result.newPath = last[p].filePath
         /\ dir = last[p].before
         /\ FileText(last[p].filePath) = last[p].ticketData.fullContent
    /\ (Len(last[p].updates) > 0 /\ TouchesNothing(last[p]) /\ last[p].result.kind = "ok") =>
         /\ last[p].result.newPath = last[p].filePath
         /\ FileText(last[p].filePath) =
              TextOf(Refreshed(last[p].ticketData.yamlLines, last[p].timestamp),
                     last[p].ticketData.contentLines)

\* C1 happens: an empty update of a ticket whose updated_at line holds an earlier
\* instant returned
EmptyUpdateReturned ==
  \E p \in Calls("update") :
    /\ Len(last[p].updates) = 0
    /\ last[p].result.kind = "ok"
    /\ \E i \in 1..Len(last[p].ticketData.yamlLines) :
         last[p].ticketData.yamlLines[i] = Chars("updated_at: ") \o ToISOString(0)

\* the key of a header line as the parser reads it, empty when it is no field
KeyAt(lines, i) == IF IsField(lines[i]) THEN HeaderKey(lines[i]) ELSE <<>>

\* the value the update stores for a key
StoredValue(u, k) ==
  IF k = Chars("updated_at") THEN u.timestamp
  ELSE IF k = Chars("slug") THEN FullSlug(u.ticketData, u.updates)
  ELSE FormattedTitle(u.updates)

\* C2, for the keys updateTicket keeps in the header (slug and title when the updates
\* give them, and updated_at): if the parsed document has a header field with that
\* key, its line is rewritten at the same index and no line is added; if it has
\* none, a 'key: value' line is appended at the end of the header; every other
\* header line keeps its text and its place.
HeaderUpdatedKeyByKey ==
  \A p \in Calls("update") :
    (Len(last[p].updates) > 0 /\ last[p].result.kind = "ok") =>
      LET u == last[p]
          old == u.ticketData.yamlLines
          new == HeaderOf(u.result.newPath)
          targets == {k \in {Chars("slug"), Chars("title")} :
                        HasKey(u.updates, k) /\ Len(Get(u.updates, k)) > 0}
                     \cup {Chars("updated_at")}
          present == {KeyAt(old, i) : i \in 1..Len(old)}
          firstOf(k) == Least({i \in 1..Len(old) : KeyAt(old, i) = k})
      IN  /\ Len(new) = Len(old) + Cardinality(targets \ present)
          /\ \A i \in 1..Len(old) :
               (KeyAt(old, i) \notin targets \/ i # firstOf(KeyAt(old, i))) => new[i] = old[i]
          /\ \A k \in targets \cap present :
               /\ KeyAt(new, firstOf(k)) = k
               /\ HeaderValue(new[firstOf(k)]) = Trim(StoredValue(u, k))
          /\ \A k \in targets \ present :
               \E i \in (Len(old) + 1)..Len(new) :
                 KeyAt(new, i) = k /\ HeaderValue(new[i]) = Trim(StoredValue(u, k))

SlugLinesAre(u, want) ==
  LET new == HeaderOf(u.result.newPath)
  IN  /\ \E i \in 1..Len(new) : new[i] = want
      /\ \A i \in 1..Len(new) : StartsWith(new[i], Chars("slug:")) => new[i] = want
      /\ \A i \in 1..Len(new) : new[i] # Chars("slug: ") \o Get(u.updates, Chars("slug"))

SlugUpdates ==
  {p \in Calls("update") :
     /\ last[p].result.kind = "ok"
     /\ HasKey(last[p].updates, Chars("slug"))
     /\ Len(Get(last[p].updates, Chars("slug"))) > 0}

\* C9 as claimed: after a successful update with slug text s, the header's slug is
\* exactly '<id>-<s>' with <id> the value of the document's own id field, never the
\* bare s.
SlugPrefixedByOwnId ==
  \A p \in SlugUpdates :
    LET md == last[p].ticketData.metadata
    IN  /\ Chars("id") \in DOMAIN md
        /\ SlugLinesAre(last[p], Chars("slug: ") \o md[Chars("id")] \o Chars("-")
                                 \o Get(last[p].updates, Chars("slug")))

\* C9 as amended: after a successful update with slug text s, the header's slug is
\* exactly '<id>-<s>' with <id> the value of the document's own id field, or
\* 'TKT-000' when the document has no id field or an empty one; never the bare s.
SlugPrefixedByIdOrDefault ==
  \A p \in SlugUpdates :
    LET md == last[p].ticketData.metadata
        id == IF Chars("id") \in DOMAIN md /\ Len(md[Chars("id")]) > 0
              THEN md[Chars("id")] ELSE Chars("TKT-000")
    IN  SlugLinesAre(last[p], Chars("slug: ") \o id \o Chars("-")
                              \o Get(last[p].updates, Chars("slug")))

\* C9 happens: a slug update succeeded on a ticket that has no id field
SlugUpdatedWithoutId ==
  \E p \in SlugUpdates : Chars("id") \notin DOMAIN last[p].ticketData.metadata

\* the file name a slug update derives, and whether it differs from the current one
DerivedName(ticketData, updates) ==
  LET md == ticketData.metadata
      id == IF Chars("id") \in DOMAIN md /\ Len(md[Chars("id")]) > 0
            THEN md[Chars("id")] ELSE Chars("TKT-000")
  IN  id \o Chars("-") \o Trim(Get(updates, Chars("slug"))) \o Chars(".md")

Holds(name, text) == FileExists(name) /\ FileText(name) = text

\* the call got as far as deriving a destination other than its own path
Renames(path, ticketData, updates, result) ==
  /\ HasKey(updates, Chars("slug"))
  /\ Len(Trim(Get(updates, Chars("slug")))) > 0
  /\ DerivedName(ticketData, updates) # path
  /\ result \notin {ResThrow("Original ticket file not found"),
                    ResThrow("Cannot write to ticket file")}

\* C10: in a slug update that derives another path, the old file is removed only
\* after the new path was written: before the write and after a failed write the old
\* file holds its original text; when the destination already exists the call fails
\* with the conflict error and no file is changed; the old file is gone only when
\* the new path holds the new text.
OldFileRemovedOnlyAfterWrite ==
  /\ \A p \in Procs :
       (pc[p] = "write" /\ loc[p].plan.newFilePath # loc[p].path) =>
         /\ Holds(loc[p].path, loc[p].ticketData.fullContent)
         /\ dir = loc[p].before
  /\ \A p \in Procs :
       pc[p] = "unlink" =>
         /\ Holds(loc[p].path, loc[p].ticketData.fullContent)
         /\ Holds(loc[p].plan.newFilePath, loc[p].plan.reconstructed)
  /\ \A p \in Calls("update") :
       LET u == last[p]
           dest == DerivedName(u.ticketData, u.updates)
       IN  Renames(u.filePath, u.ticketData, u.updates, u.result) =>
             /\ (\E i \in 1..Len(u.before) : u.before[i].name = dest) =>
                  (u.result = ResThrow("Target file already exists") /\ dir = u.before)
             /\ u.result.kind = "throw" => Holds(u.filePath, u.ticketData.fullContent)
             /\ ~FileExists(u.filePath) =>
                  (u.result.kind = "ok" /\ Holds(dest, u.plan.reconstructed))

\* C10 happens: a slug update met a file at its destination
RenameMetExistingFile ==
  \E p \in Calls("update") :
    /\ Renames(last[p].filePath, last[p].ticketData, last[p].updates, last[p].result)
    /\ \E i \in 1..Len(last[p].before) :
         last[p].before[i].name = DerivedName(last[p].ticketData, last[p].updates)

--------------------------------------------------------------------------
(* Properties of a successful updateTicket *)

\* the updateTicket calls that reported success
Succeeded == {p \in Calls("update") : last[p].result.kind = "ok"}

\* the text a successful call leaves at its destination
NewText(u) == IF u.plan.kind = "write" THEN u.plan.reconstructed ELSE u.ticketData.fullContent

\* the result's renamed flag; the result of an empty update carries none
RenamedFlag(u) == "renamed" \in DOMAIN u.result /\ u.result.renamed

\* C11 as claimed: after every updateTicket call that reports success, either the
\* file name did not change, the same path holds the new text and renamed is false,
\* or renamed is true, the new path holds the new text and the old path no longer
\* exists.
SuccessLeavesOneFile ==
  \A p \in Succeeded :
    LET u == last[p]
    IN  IF u.result.newPath = u.filePath
        THEN Holds(u.filePath, NewText(u)) /\ ~RenamedFlag(u)
        ELSE /\ RenamedFlag(u)
             /\ Holds(u.result.newPath, NewText(u))
             /\ ~FileExists(u.filePath)

\* C11 as the code has it: as above, except that after a rename the old path is
\* either gone or, when its removal failed, still holds the original text.
SuccessLeavesNewFileAndMaybeOld ==
  \A p \in Succeeded :
    LET u == last[p]
    IN  IF u.result.newPath = u.filePath
        THEN Holds(u.filePath, NewText(u)) /\ ~RenamedFlag(u)
        ELSE /\ RenamedFlag(u)
             /\ Holds(u.result.newPath, NewText(u))
             /\ FileExists(u.filePath) => Holds(u.filePath, u.ticketData.fullContent)

\* C11 happens: a slug update moved the ticket to another file and removed the old
RenamedAndRemovedOld ==
  \E p \in Succeeded :
    /\ last[p].result.newPath # last[p].filePath
    /\ ~FileExists(last[p].filePath)

--------------------------------------------------------------------------
(* JavaScript strings and regular expressions of the lint command          *)
(* (src/src/commands/lint/index.js)                                        *)

\* String.prototype.indexOf(sub, from): 0-based, -1 when absent
IndexOfSub(s, sub, from) ==
  LET hits == {i \in (from + 1)..(Len(s) - Len(sub) + 1) :
                 SubSeq(s, i, i + Len(sub) - 1) = sub}
  IN  IF hits = {} THEN -1 ELSE (CHOOSE i \in hits : \A j \in hits : i <= j) - 1

\* String.prototype.includes
Includes(s, sub) == IndexOfSub(s, sub, 0) # -1

\* String.prototype.split(sep) for a non-empty separator
RECURSIVE SplitOn(_, _)
SplitOn(s, sep) ==
  LET i == IndexOfSub(s, sep, 0)
  IN  IF i = -1 THEN <<s>>
      ELSE <<SubstringTo(s, i)>> \o SplitOn(SubstringFrom(s, i + Len(sep)), sep)

\* Array.prototype.join(sep)
RECURSIVE JoinWith(_, _)
JoinWith(parts, sep) ==
  IF Len(parts) = 0 THEN <<>>
  ELSE IF Len(parts) = 1 THEN parts[1]
  ELSE parts[1] \o sep \o JoinWith(Tail(parts), sep)

\* String.prototype.replace(sub, '') : the first occurrence removed
RemoveFirst(s, sub) ==
  LET i == IndexOfSub(s, sub, 0)
  IN  IF i = -1 THEN s ELSE SubstringTo(s, i) \o SubstringFrom(s, i + Len(sub))

\* String.prototype.toLowerCase
ToLowerCase(s) ==
  [i \in 1..Len(s) |->
     IF \E k \in 1..Len(UpperCase) : UpperCase[k] = s[i]
     THEN LowerCase[CHOOSE k \in 1..Len(UpperCase) : UpperCase[k] = s[i]]
     ELSE s[i]]

\* [a-z0-9]
IsSlugChar(c) == c \in Digits \/ \E k \in 1..Len(LowerCase) : LowerCase[k] = c

\* s.replace(/[^a-z0-9]+/g, '-'): every run of other characters becomes one hyphen
RECURSIVE Hyphenate(_)
Hyphenate(s) ==
  IF Len(s) = 0 THEN <<>>
  ELSE IF IsSlugChar(s[1]) THEN <<s[1]>> \o Hyphenate(Tail(s))
  ELSE IF Len(s) > 1 /\ ~IsSlugChar(s[2]) THEN Hyphenate(Tail(s))
  ELSE <<"-">> \o Hyphenate(Tail(s))

\* s.replace(/^-+|-+$/g, '')
RECURSIVE StripHyphens(_)
StripHyphens(s) ==
  IF Len(s) > 0 /\ s[1] = "-" THEN StripHyphens(Tail(s))
  ELSE IF Len(s) > 0 /\ s[Len(s)] = "-" THEN StripHyphens(SubSeq(s, 1, Len(s) - 1))
  ELSE s

\* title.toLowerCase().replace(/[^a-z0-9]+/g, '-').replace(/^-+|-+$/g, '')
Slugify(title) == StripHyphens(Hyphenate(ToLowerCase(title)))

\* the number of digits s starts with
RECURSIVE DigitRun(_)
DigitRun(s) == IF Len(s) > 0 /\ s[1] \in Digits THEN 1 + DigitRun(Tail(s)) ELSE 0

\* filename.match(/^(TKT-\d+)/): the matched prefix, or the empty string for no match
TicketPrefix(filename) ==
  IF StartsWith(filename, Chars("TKT-")) /\ DigitRun(SubstringFrom(filename, 4)) > 0
  THEN SubstringTo(filename, 4 + DigitRun(SubstringFrom(filename, 4)))
  ELSE <<>>

\* s.replace(/^TKT-\d+-/, '')
StripTicketPrefix(s) ==
  LET p == TicketPrefix(s)
  IN  IF Len(p) > 0 /\ Len(s) > Len(p) /\ s[Len(p) + 1] = "-"
      THEN SubstringFrom(s, Len(p) + 1) ELSE s

\* s.replace(/-/g, ' ')
HyphensToSpaces(s) == [i \in 1..Len(s) |-> IF s[i] = "-" THEN " " ELSE s[i]]

\* /^TKT-\d{3}$/.test(s)
IsTicketId(s) ==
  Len(s) = 7 /\ StartsWith(s, Chars("TKT-")) /\ IsDigits(SubstringFrom(s, 4))

\* the number of whitespace characters of s from position i on
RECURSIVE SpaceRun(_, _)
SpaceRun(s, i) == IF i <= Len(s) /\ IsSpace(s[i]) THEN 1 + SpaceRun(s, i + 1) ELSE 0

\* /^##\s+/m matches at position i: a line starts there with '##' and whitespace
HeaderAt(s, i) ==
  /\ i = 1 \/ s[i - 1] \in {NL, "\r"}
  /\ i + 2 <= Len(s)
  /\ s[i] = "#" /\ s[i + 1] = "#" /\ IsSpace(s[i + 2])

\* the first match of /^##\s+/m at or after position from, 0 when there is none
NextHeader(s, from) ==
  LET hits == {i \in from..Len(s) : HeaderAt(s, i)}
  IN  IF hits = {} THEN 0 ELSE CHOOSE i \in hits : \A j \in hits : i <= j

\* content.split(/^##\s+/m), from position start on
RECURSIVE SplitHeadersFrom(_, _)
SplitHeadersFrom(s, start) ==
  LET i == NextHeader(s, start)
  IN  IF i = 0 THEN <<SubSeq(s, start, Len(s))>>
      ELSE <<SubSeq(s, start, i - 1)>>
             \o SplitHeadersFrom(s, i + 2 + SpaceRun(s, i + 2))

SplitHeaders(s) == SplitHeadersFrom(s, 1)

\* new RegExp(`^##\\s+${section}`, 'm').test(content), for a section name that holds
\* no regular-expression metacharacter
SectionRegexTest(content, section) ==
  \E i \in 1..Len(content) :
    /\ HeaderAt(content, i)
    /\ \E k \in 1..SpaceRun(content, i + 2) :
         SubSeq(content, i + 2 + k, i + 1 + k + Len(section)) = section

\* line.match(/^##\s+(.+)/): whether it matches, and the trimmed group
IsHeaderLine(line) ==
  /\ HeaderAt(line, 1)
  /\ 2 + SpaceRun(line, 3) < Len(line) \/ SpaceRun(line, 3) >= 2

HeaderName(line) == Trim(SubstringFrom(line, 2 + SpaceRun(line, 3)))
--------------------------------------------------------------------------
(* js-yaml as the lint command uses it: yaml.load on a header block and    *)
(* yaml.dump on the fixed header.  The library is modelled on the block    *)
(* mappings of one-line scalars that ticket headers are made of: plain,    *)
(* quoted, null, integer, boolean and timestamp scalars, the empty         *)
(* document, a one-line plain scalar document, and an unclosed flow        *)
(* collection as the syntax error.                                         *)

\* a YAML value: its JavaScript type and its text
Val(t, s) == [t |-> t, s |-> s]

Str(text) == Val("str", text)

Undefined == Val("undefined", <<>>)

Null == Val("null", <<>>)

\* JavaScript truthiness of a value
IsTruthy(v) ==
  CASE v.t = "str" -> Len(v.s) > 0
    [] v.t = "num" -> \E i \in 1..Len(v.s) : v.s[i] # "0"
    [] v.t = "bool" -> v.s = Chars("true")
    [] v.t = "date" -> TRUE
    [] OTHER -> FALSE

\* String(v): the text a value has where JavaScript wants a string
ToText(v) == IF v.t = "null" THEN Chars("null") ELSE v.s

\* YYYY-MM-DD, optionally followed by THH:MM:SS.sssZ
IsDateText(s) ==
  LET digitAt(i) == s[i] \in Digits
  IN  /\ Len(s) \in {10, 24}
      /\ \A i \in {1, 2, 3, 4, 6, 7, 9, 10} : digitAt(i)
      /\ s[5] = "-" /\ s[8] = "-"
      /\ Len(s) = 24 =>
           /\ s[11] = "T" /\ s[14] = ":" /\ s[17] = ":" /\ s[20] = "." /\ s[24] = "Z"
           /\ \A i \in {12, 13, 15, 16, 18, 19, 21, 22, 23} : digitAt(i)

\* Date.prototype.toISOString of the timestamp a YAML date scalar denotes
DateToISO(s) == IF Len(s) = 10 THEN s \o Chars("T00:00:00.000Z") ELSE s

\* the texts YAML reads as null and as booleans
NullTexts == {<<>>, Chars("null"), Chars("Null"), Chars("NULL"), Chars("~")}

BoolTexts == {Chars("true"), Chars("false")}

\* the words the dumper quotes for YAML 1.1 readers
OldBoolTexts == {Chars("y"), Chars("n"), Chars("yes"), Chars("no"), Chars("on"), Chars("off")}

\* the characters a plain scalar may not start with
Indicators == {"-", "?", ":", ",", "[", "]", "{", "}", "#", "&", "*", "!", "|", "=", ">",
               "'", "\"", "%", "@"}

IsQuoted(s) ==
  /\ Len(s) >= 2
  /\ s[1] \in {"'", "\""}
  /\ s[Len(s)] = s[1]
  /\ \A i \in 2..(Len(s) - 1) : s[i] # s[1]

\* a flow collection or a quoted scalar that is opened and not closed on its line
IsUnclosed(s) ==
  /\ Len(s) > 0
  /\ \/ s[1] = "[" /\ s[Len(s)] # "]"
     \/ s[1] = "{" /\ s[Len(s)] # "}"
     \/ s[1] \in {"'", "\""} /\ ~IsQuoted(s)

\* the value of a one-line scalar
ResolveScalar(s) ==
  CASE s \in NullTexts -> Null
    [] s \in BoolTexts -> Val("bool", s)
    [] IsDigits(s) -> Val("num", s)
    [] IsDateText(s) -> Val("date", s)
    [] IsQuoted(s) -> Str(SubSeq(s, 2, Len(s) - 1))
    [] OTHER -> Str(s)

\* the first ':' after position from that is followed by a space or ends the line,
\* 0 when there is none
ColonAfter(line, from) ==
  LET hits == {i \in (from + 1)..Len(line) :
                 line[i] = ":" /\ (i = Len(line) \/ line[i + 1] = " ")}
  IN  IF hits = {} THEN 0 ELSE CHOOSE i \in hits : \A j \in hits : i <= j

\* the position of the ':' that ends the key of a mapping line, 0 when there is none;
\* a key may be written in double quotes
KeyEnd(line) ==
  IF Len(line) > 0 /\ line[1] = "\""
  THEN (IF IndexOfSub(line, <<"\"">>, 1) = -1 THEN 0
        ELSE ColonAfter(line, IndexOfSub(line, <<"\"">>, 1) + 1))
  ELSE ColonAfter(line, 0)

\* the lines of a document that hold something: not blank, not a comment
YamlContentLines(text) ==
  SelectSeq(SplitLines(text), LAMBDA line : Len(Trim(line)) > 0 /\ Trim(line)[1] # "#")

IsMappingLine(line) == KeyEnd(line) > 1 /\ ~IsSpace(line[1])

\* the key and the value text of a mapping line whose key ends at position k
EntryAt(line, k) ==
  [key |-> ResolveScalar(SubstringTo(line, k - 1)).s, text |-> Trim(SubstringFrom(line, k))]

\* the mapping a block of 'key: value' lines denotes, or a YAMLException for an
\* unclosed value or a duplicated key
LoadEntries(entries) ==
  IF \/ \E i \in 1..Len(entries) : IsUnclosed(entries[i].text)
     \/ \E i, j \in 1..Len(entries) : i # j /\ entries[i].key = entries[j].key
  THEN [kind |-> "throw"]
  ELSE [kind |-> "map",
        entries |-> [i \in 1..Len(entries) |->
                       [key |-> entries[i].key, value |-> ResolveScalar(entries[i].text)]]]

\* the document its content lines denote
LoadLines(lines) ==
  IF Len(lines) = 0 THEN [kind |-> "undefined"]
  ELSE IF \A i \in 1..Len(lines) : IsMappingLine(lines[i])
  THEN LoadEntries([i \in 1..Len(lines) |-> EntryAt(lines[i], KeyEnd(lines[i]))])
  ELSE IF Len(lines) = 1 /\ KeyEnd(lines[1]) = 0 /\ Trim(lines[1])[1] \notin Indicators
  THEN [kind |-> "scalar", s |-> Trim(lines[1])]
  ELSE [kind |-> "throw"]

\* yaml.load(text): a mapping (entries in document order), undefined for an empty
\* document, a string for a one-line plain scalar, or a YAMLException
YamlLoad(text) == LoadLines(YamlContentLines(text))

\* whether the dumper may write a string plain
IsPlainSafe(s) ==
  /\ Len(s) > 0
  /\ ~IsSpace(s[1]) /\ ~IsSpace(s[Len(s)])
  /\ s[1] \notin Indicators
  /\ s[Len(s)] # ":"
  /\ ~Includes(s, Chars(": ")) /\ ~Includes(s, Chars(" #"))
  /\ ResolveScalar(s) = Str(s)
  /\ ToLowerCase(s) \notin OldBoolTexts

\* a string as yaml.dump writes it with quotingType '"'
DumpString(s) == IF IsPlainSafe(s) THEN s ELSE <<"\"">> \o s \o <<"\"">>

DumpValue(v) ==
  CASE v.t = "str" -> DumpString(v.s)
    [] v.t = "date" -> DateToISO(v.s)
    [] v.t = "null" -> Chars("null")
    [] OTHER -> v.s

\* yaml.dump(object): one 'key: value' line per own property, each ended by a newline
RECURSIVE YamlDump(_)
YamlDump(entries) ==
  IF Len(entries) = 0 THEN <<>>
  ELSE DumpString(entries[1].key) \o Chars(": ") \o DumpValue(entries[1].value) \o <<NL>>
         \o YamlDump(Tail(entries))
--------------------------------------------------------------------------
(* The rule set of a lint run: config.yml and the template document        *)

FallbackFields ==
  <<Chars("id"), Chars("title"), Chars("slug"), Chars("status"), Chars("priority"),
    Chars("created_at"), Chars("updated_at")>>

DefaultStatuses == <<Chars("open"), Chars("in_progress"), Chars("review"), Chars("done")>>

DefaultPriorities == <<Chars("low"), Chars("medium"), Chars("high"), Chars("urgent")>>

\* config.tickets?.status_options || [...], config.tickets?.priority_options || [...]
ValidStatuses(config) ==
  IF config.statusGiven THEN config.statusOptions ELSE DefaultStatuses

ValidPriorities(config) ==
  IF config.priorityGiven THEN config.priorityOptions ELSE DefaultPriorities

\* obj[key] of a loaded document: undefined for an absent key or a string document
Field(doc, key) ==
  IF doc.kind = "map" /\ \E i \in 1..Len(doc.entries) : doc.entries[i].key = key
  THEN doc.entries[CHOOSE i \in 1..Len(doc.entries) : doc.entries[i].key = key].value
  ELSE Undefined

\* the decimal text of a small index
IndexText(i) == IF i < 10 THEN <<Chars("0123456789")[i + 1]>>
                ELSE <<Chars("0123456789")[(i \div 10) + 1], Chars("0123456789")[(i % 10) + 1]>>

\* the own properties of a loaded document: { ...doc } and Object.keys(doc || {})
OwnEntries(doc) ==
  CASE doc.kind = "map" -> doc.entries
    [] doc.kind = "scalar" ->
         [i \in 1..Len(doc.s) |-> [key |-> IndexText(i - 1), value |-> Str(<<doc.s[i]>>)]]
    [] OTHER -> <<>>

\* the header block of the template, loaded; "none" when the template has none
TemplateHeader(template) ==
  IF ~StartsWith(template, DELIM) THEN [kind |-> "none"]
  ELSE IF Len(SplitOn(template, DELIM)) < 3 THEN [kind |-> "none"]
  ELSE YamlLoad(SplitOn(template, DELIM)[2])

\* getRequiredFrontmatter(config)
getRequiredFrontmatter(config) ==
  LET header == TemplateHeader(config.template)
  IN  IF ~config.templateExists \/ header.kind \in {"none", "throw"} THEN FallbackFields
      ELSE [i \in 1..Len(OwnEntries(header)) |-> OwnEntries(header)[i].key]

\* getRequiredSections(config), for a template that exists
getRequiredSections(config) ==
  LET lines == SelectSeq(SplitLines(config.template), IsHeaderLine)
  IN  [i \in 1..Len(lines) |-> HeaderName(lines[i])]

\* getFrontmatterDefaults(config): a loaded document, an empty one when there is none
getFrontmatterDefaults(config) ==
  LET header == TemplateHeader(config.template)
  IN  IF ~config.templateExists \/ header.kind \in {"none", "throw", "undefined"}
      THEN [kind |-> "map", entries |-> <<>>]
      ELSE header

\* the name and the default content of one piece of the template's body
SectionDefaultOf(lines) == [name |-> Trim(lines[1]), content |-> JoinLines(Tail(lines))]

\* the defaults of the pieces after the first, which is what precedes any header
DefaultsOf(sections) ==
  [i \in 1..(Len(sections) - 1) |-> SectionDefaultOf(SplitLines(sections[i + 1]))]

\* the sections of a template split on '---'
TemplateSections(parts) ==
  IF Len(parts) < 3 THEN <<>>
  ELSE DefaultsOf(SplitHeaders(JoinWith(SubSeq(parts, 3, Len(parts)), DELIM)))

\* getSectionDefaults(config): [name, content] per template section, in template order
getSectionDefaults(config) ==
  IF ~config.templateExists THEN <<>>
  ELSE TemplateSections(SplitOn(config.template, DELIM))

\* sectionDefaults[section]: the last entry of that name, or nothing
HasSectionDefault(defaults, section) == \E i \in 1..Len(defaults) : defaults[i].name = section

SectionDefault(defaults, section) ==
  defaults[CHOOSE i \in 1..Len(defaults) :
             /\ defaults[i].name = section
             /\ \A j \in (i + 1)..Len(defaults) : defaults[j].name # section].content

--------------------------------------------------------------------------
(* validateFrontmatter, validateSections *)

\* !isNaN(Date.parse(v)) for the date texts of the model: ISO dates and timestamps
IsParsableDate(v) == v.t = "date" \/ (v.t = "str" /\ IsDateText(v.s))

MissingFieldError(field) == Chars("Missing required frontmatter field: ") \o field

\* the required fields the document has no truthy value for
MissingFields(doc, requiredFields) ==
  SelectSeq(requiredFields, LAMBDA field : ~IsTruthy(Field(doc, field)))

\* validStatuses.includes(value)
Member(options, v) == v.t = "str" /\ \E i \in 1..Len(options) : options[i] = v.s

EnumError(what, v, options) ==
  Chars("Invalid ") \o what \o Chars(" \"") \o ToText(v) \o Chars("\". Must be one of: ")
    \o JoinWith(options, Chars(", "))

\* the options not consulted: no value is reported
NoEnumErrors(what, v, options) == <<>>

\* if (value && !options.includes(value)) errors.push(...)
EnumErrors(what, v, options) ==
  IF IsTruthy(v) /\ ~Member(options, v) THEN <<EnumError(what, v, options)>> ELSE <<>>

\* the ID format and the file name checks
IdErrors(id, filename) ==
  (IF IsTruthy(id) /\ ~IsTicketId(ToText(id))
   THEN <<Chars("Invalid ID format \"") \o ToText(id)
            \o Chars("\". Must follow pattern: TKT-XXX (e.g., TKT-001)")>>
   ELSE <<>>)
  \o (IF IsTruthy(id) /\ ~StartsWith(filename, ToText(id))
      THEN <<Chars("Filename should start with ticket ID \"") \o ToText(id) \o Chars("\"")>>
      ELSE <<>>)

\* if (value && isNaN(Date.parse(value))) errors.push(...)
DateErrors(what, v) ==
  IF IsTruthy(v) /\ ~IsParsableDate(v)
  THEN <<Chars("Invalid ") \o what \o Chars(" date format: ") \o ToText(v)>>
  ELSE <<>>

MissingFieldErrors(missing) == [i \in 1..Len(missing) |-> MissingFieldError(missing[i])]

\* validateFrontmatter(frontmatter, filename, config, requiredFields): the errors in
\* the order they are pushed; reading a field of undefined is a TypeError
validateFrontmatter(doc, filename, config, requiredFields) ==
  IF doc.kind = "undefined" THEN [kind |-> "throw"]
  ELSE [kind |-> "errors", errors |->
          MissingFieldErrors(MissingFields(doc, requiredFields))
          \o EnumErrors(Chars("status"), Field(doc, Chars("status")), ValidStatuses(config))
          \o EnumErrors(Chars("priority"), Field(doc, Chars("priority")),
                        ValidPriorities(config))
          \o IdErrors(Field(doc, Chars("id")), filename)
          \o DateErrors(Chars("created_at"), Field(doc, Chars("created_at")))
          \o DateErrors(Chars("updated_at"), Field(doc, Chars("updated_at")))]

MissingSectionError(section) == Chars("Missing required section: ## ") \o section

\* the required sections the body has no header for
MissingSections(content, requiredSections) ==
  SelectSeq(requiredSections, LAMBDA section : ~SectionRegexTest(content, section))

\* content.split(/^##\s+/m).filter(s => s.trim())
SectionPieces(content) == SelectSeq(SplitHeaders(content), LAMBDA s : Len(Trim(s)) > 0)

\* the first piece the loop over the sections looks at: sections[1] in the source
FirstChecked == 2

\* the pieces the loop of validateSections looks at
LoopPieces(pieces) == SubSeq(pieces, FirstChecked, Len(pieces))

CheckedPieces(content) == LoopPieces(SectionPieces(content))

\* sectionContent, sectionTitle and sectionBody of one piece
SectionContentOf(piece) == Trim(SplitHeaders(piece)[1])

TitleIn(sectionContent) == SplitLines(sectionContent)[1]

BodyIn(sectionContent, sectionTitle) ==
  Trim(SubstringFrom(sectionContent, Len(sectionTitle)))

SectionTitleOf(piece) == TitleIn(SectionContentOf(piece))

SectionBodyOf(piece) == BodyIn(SectionContentOf(piece), SectionTitleOf(piece))

\* the shortest body that is not reported
MinBody == 10

\* if (!sectionBody || sectionBody.length < 10)
IsShort(piece) == Len(SectionBodyOf(piece)) < MinBody

ShortSectionError(title) ==
  Chars("Section \"## ") \o title \o Chars("\" appears to be empty or too short")

\* { errors, missingSections }
SectionReport(missing, short) ==
  [errors |-> [i \in 1..Len(missing) |-> MissingSectionError(missing[i])]
                \o [i \in 1..Len(short) |-> ShortSectionError(SectionTitleOf(short[i]))],
   missingSections |-> missing]

\* validateSections(content, requiredSections)
validateSections(content, requiredSections) ==
  SectionReport(MissingSections(content, requiredSections),
                SelectSeq(CheckedPieces(content), IsShort))

--------------------------------------------------------------------------
(* fixMissingFrontmatter, fixMissingSections, validateTicketFile *)

\* obj[key] = value: an own property keeps its place, a new one goes last
SetField(entries, key, value) ==
  IF \E i \in 1..Len(entries) : entries[i].key = key
  THEN [i \in 1..Len(entries) |->
          IF entries[i].key = key THEN [key |-> key, value |-> value] ELSE entries[i]]
  ELSE Append(entries, [key |-> key, value |-> value])

EntryValue(entries, key) == Field([kind |-> "map", entries |-> entries], key)

\* filename.replace('.md', '').replace(/^TKT-\d+-/, '')
NameStem(filename) == StripTicketPrefix(RemoveFirst(filename, Chars(".md")))

\* the slug a fix derives from the title or the file name, prefixed by a truthy id
FixedSlug(entries, filename) ==
  LET title == EntryValue(entries, Chars("title"))
      id == EntryValue(entries, Chars("id"))
      text == Slugify(IF IsTruthy(title) THEN title.s ELSE NameStem(filename))
  IN  IF IsTruthy(id) THEN ToText(id) \o Chars("-") \o text ELSE text

\* config.tickets?.status_options?.[0] || 'open'
FixedStatus(config) ==
  IF config.statusGiven /\ Len(config.statusOptions) > 0 /\ Len(config.statusOptions[1]) > 0
  THEN config.statusOptions[1] ELSE Chars("open")

\* one turn of the loop of fixMissingFrontmatter: the entries with field supplied
FixField(entries, field, config, defaults, filename, currentDate) ==
  IF field = Chars("slug")
  THEN SetField(entries, field, Str(FixedSlug(entries, filename)))
  ELSE IF field \in {Chars("created_at"), Chars("updated_at")}
  THEN SetField(entries, field, Str(currentDate))
  ELSE IF Field(defaults, field) # Undefined
  THEN SetField(entries, field, Field(defaults, field))
  ELSE IF field = Chars("status") THEN SetField(entries, field, Str(FixedStatus(config)))
  ELSE IF field = Chars("priority") THEN SetField(entries, field, Str(Chars("medium")))
  ELSE IF field = Chars("title")
  THEN SetField(entries, field, Str(HyphensToSpaces(NameStem(filename))))
  ELSE IF field = Chars("id")
  THEN (IF Len(TicketPrefix(filename)) > 0
        THEN SetField(entries, field, Str(TicketPrefix(filename)))
        ELSE entries)
  ELSE SetField(entries, field, Str(<<>>))

\* title.toLowerCase() of a truthy title that is not a string is a TypeError
SlugThrows(entries) ==
  LET title == EntryValue(entries, Chars("title"))
  IN  IsTruthy(title) /\ title.t # "str"

\* the loop of fixMissingFrontmatter from field i on
RECURSIVE FixFields(_, _, _, _, _, _, _)
FixFields(entries, fields, i, config, defaults, filename, currentDate) ==
  IF i > Len(fields) THEN [kind |-> "map", entries |-> entries]
  ELSE IF fields[i] = Chars("slug") /\ SlugThrows(entries) THEN [kind |-> "throw"]
  ELSE FixFields(FixField(entries, fields[i], config, defaults, filename, currentDate),
                 fields, i + 1, config, defaults, filename, currentDate)

\* fixMissingFrontmatter(frontmatter, missingFields, config, filename)
fixMissingFrontmatter(doc, missingFields, config, filename, currentDate) ==
  FixFields(OwnEntries(doc), missingFields, 1, config, getFrontmatterDefaults(config),
            filename, currentDate)

Placeholder == <<NL>> \o Chars("TODO: Add content for this section") \o <<NL>>

\* `\n## ${section}${defaultContent}`
AppendedSection(section, sectionDefaults) ==
  <<NL>> \o Chars("## ") \o section
    \o (IF HasSectionDefault(sectionDefaults, section)
           /\ Len(SectionDefault(sectionDefaults, section)) > 0
        THEN SectionDefault(sectionDefaults, section) ELSE Placeholder)

RECURSIVE AppendSections(_, _, _)
AppendSections(content, missingSections, sectionDefaults) ==
  IF Len(missingSections) = 0 THEN content
  ELSE AppendSections(content \o AppendedSection(missingSections[1], sectionDefaults),
                      Tail(missingSections), sectionDefaults)

\* fixMissingSections(content, missingSections, config)
fixMissingSections(content, missingSections, config) ==
  AppendSections(IF Len(content) > 0 /\ ~EndsWith(content, <<NL>>)
                 THEN content \o <<NL>> ELSE content,
                 missingSections, getSectionDefaults(config))

\* yaml.dump of the fixed header: a mapping, or the string a scalar header is
DumpDoc(doc) ==
  IF doc.kind = "scalar" THEN DumpString(doc.s) \o <<NL>> ELSE YamlDump(doc.entries)

\* the value validateTicketFile returns
Result(filename, errors, warnings, fixed, missingSections) ==
  [filename |-> filename, errors |-> errors, warnings |-> warnings, fixed |-> fixed,
   missingSections |-> missingSections]

IsMissingError(error) ==
  \/ StartsWith(error, Chars("Missing required section:"))
  \/ StartsWith(error, Chars("Missing required frontmatter field:"))

\* result.warnings.push(`Fixed ${messages.join(' and ')}`); counts stay below ten
FixedWarning(fields, sections) ==
  Chars("Fixed ")
    \o JoinWith((IF fields > 0
                 THEN <<IndexText(fields) \o Chars(" missing frontmatter fields")>>
                 ELSE <<>>)
                \o (IF sections > 0
                    THEN <<IndexText(sections) \o Chars(" missing sections")>>
                    ELSE <<>>),
                Chars(" and "))

\* the warnings for common issues
CommonWarnings(doc, ticketContent) ==
  (IF Includes(ticketContent, Chars("TODO")) \/ Includes(ticketContent, Chars("FIXME"))
   THEN <<Chars("Contains TODO or FIXME comments")>> ELSE <<>>)
  \o (IF IsTruthy(Field(doc, Chars("title"))) /\ Field(doc, Chars("title")).t = "str"
         /\ Len(Field(doc, Chars("title")).s) > 80
      THEN <<Chars("Title is longer than 80 characters")>> ELSE <<>>)

ReadFailed == Chars("Failed to read file: ")

\* an exception that reaches the caller: validateTicketFile without its catch
Uncaught(result) == [threw |-> TRUE, result |-> result]

\* catch (error) { result.errors.push(`Failed to read file: ${error.message}`) }
Caught(result) ==
  [threw |-> FALSE,
   result |-> [result EXCEPT !.errors = Append(@, ReadFailed \o Chars("error"))]]

\* result.errors.filter(error => !error.startsWith('Missing required ...'))
RemainingErrors(errors) == SelectSeq(errors, LAMBDA error : ~IsMissingError(error))

\* fixes applied whatever the mode
ShouldFixAlways(fixMode, missingSections, missingFields) ==
  Len(missingSections) > 0 \/ Len(missingFields) > 0

\* fixMode && (result.missingSections.length > 0 || missingFrontmatterFields.length > 0)
ShouldFix(fixMode, missingSections, missingFields) ==
  fixMode /\ (Len(missingSections) > 0 \/ Len(missingFields) > 0)

\* a Result returned with nothing written
Returned(result) == [threw |-> FALSE, result |-> result, written |-> FALSE, text |-> <<>>]

\* a Result returned from the catch block, nothing written
Failed(result) == Caught(result) @@ [written |-> FALSE, text |-> <<>>]

\* the warnings for common issues added to a Result
WithWarnings(result, doc, ticketContent) ==
  [result EXCEPT !.warnings = @ \o CommonWarnings(doc, ticketContent)]

\* validateTicketFile from yaml.dump on: the fixed file is written, the fixed errors
\* are removed and the fixes reported
WriteFixes(call, validated, doc, ticketContent, missingFrontmatterFields, fixedFrontmatter, fixedContent) ==
  IF ~call.writable
  THEN Returned(WithWarnings([validated EXCEPT
                                !.errors = Append(@, Chars("Failed to write fixes: error"))],
                             doc, ticketContent))
  ELSE [threw |-> FALSE,
        result |-> WithWarnings(
                     [validated EXCEPT
                        !.fixed = TRUE,
                        !.errors = RemainingErrors(@),
                        !.warnings = <<FixedWarning(Len(missingFrontmatterFields),
                                                    Len(validated.missingSections))>>],
                     doc, ticketContent),
        written |-> TRUE,
        text |-> DELIM \o <<NL>> \o DumpDoc(fixedFrontmatter) \o DELIM \o fixedContent]

\* validateTicketFile, the fix block: missing fields supplied, then missing sections
ApplyFixes(call, validated, doc, ticketContent, missingFrontmatterFields, fixedFrontmatter) ==
  IF fixedFrontmatter.kind = "throw" THEN Failed(validated)
  ELSE WriteFixes(call, validated, doc, ticketContent, missingFrontmatterFields,
                  fixedFrontmatter,
                  IF Len(validated.missingSections) > 0
                  THEN fixMissingSections(ticketContent, validated.missingSections,
                                          call.config)
                  ELSE ticketContent)

\* validateTicketFile once the header and the sections are validated
Validated(call, validated, doc, ticketContent, missingFrontmatterFields) ==
  IF ~ShouldFix(call.fixMode, validated.missingSections, missingFrontmatterFields)
  THEN Returned(WithWarnings(validated, doc, ticketContent))
  ELSE ApplyFixes(call, validated, doc, ticketContent, missingFrontmatterFields,
                  IF Len(missingFrontmatterFields) > 0
                  THEN fixMissingFrontmatter(doc, missingFrontmatterFields, call.config,
                                             call.filename, call.currentDate)
                  ELSE doc)

\* validateTicketFile once the header is loaded
Loaded(call, doc, ticketContent, frontmatterErrors, sectionValidation) ==
  IF frontmatterErrors.kind = "throw"
  THEN Failed(Result(call.filename, <<>>, <<>>, FALSE, <<>>))
  ELSE Validated(call,
                 Result(call.filename, frontmatterErrors.errors \o sectionValidation.errors,
                        <<>>, FALSE, sectionValidation.missingSections),
                 doc, ticketContent, MissingFields(doc, call.requiredFields))

\* validateTicketFile once the content is split on '---'
Split(call, doc, ticketContent) ==
  IF doc.kind = "throw"
  THEN Returned(Result(call.filename, <<Chars("Invalid YAML frontmatter: error")>>,
                       <<>>, FALSE, <<>>))
  ELSE Loaded(call, doc, ticketContent,
              validateFrontmatter(doc, call.filename, call.config, call.requiredFields),
              validateSections(ticketContent, call.requiredSections))

\* validateTicketFile once the file is read
Read(call, content, parts) ==
  IF ~StartsWith(content, DELIM)
  THEN Returned(Result(call.filename,
                       <<Chars("File must start with YAML frontmatter (---)")>>,
                       <<>>, FALSE, <<>>))
  ELSE IF Len(parts) < 3
  THEN Returned(Result(call.filename,
         <<Chars("Invalid frontmatter format. Must be enclosed in --- delimiters")>>,
         <<>>, FALSE, <<>>))
  ELSE Split(call, YamlLoad(parts[2]), JoinWith(SubSeq(parts, 3, Len(parts)), DELIM))

\* validateTicketFile(filePath, config, requiredFields, requiredSections, fixMode) on a
\* file with the given text: the Result, and the text written to the file if any.
\* call.readable: readFileSync succeeds; call.writable: writeFileSync succeeds.
validateTicketFile(call, content) ==
  IF ~call.readable THEN Failed(Result(call.filename, <<>>, <<>>, FALSE, <<>>))
  ELSE Read(call, content, SplitOn(content, DELIM))

--------------------------------------------------------------------------
(* Inputs of the lint command: configurations, templates and ticket files  *)

TplStandard ==
  Chars("---\nid: TKT-000\ntitle: New ticket\nslug: new\nstatus: open\npriority: medium\n")
  \o Chars("created_at: 2026-01-01\nupdated_at: 2026-01-01\n---\n")
  \o Chars("\n## Description\n\nDescribe the task.\n\n## Notes\n\nAdd notes here.\n")

\* a template without a header block
TplBare == Chars("## Description\n\nDescribe the task.\n\n## Notes\n\nAdd notes here.\n")

\* a template whose fields are left blank, with one section left blank and one whose
\* body starts on the line after its header
TplBlank ==
  Chars("---\nid:\nslug:\nstatus:\n---\n## Description\n## Notes\nAdd notes here.\n")

Config(statusGiven, statusOptions, templateExists, template) ==
  [statusGiven |-> statusGiven, statusOptions |-> statusOptions,
   priorityGiven |-> FALSE, priorityOptions |-> <<>>,
   templateExists |-> templateExists, template |-> template]

Configs ==
  { Config(FALSE, <<>>, TRUE, TplStandard),
    Config(TRUE, DefaultStatuses, TRUE, TplBare),
    Config(TRUE, <<Chars("todo"), Chars("done")>>, TRUE, TplBlank),
    Config(FALSE, <<>>, FALSE, <<>>) }

GoodBody ==
  Chars("\n## Description\n\nThe login form fails.\n\n## Notes\n\nSee the server log.\n")

\* a header with every field of the fallback list; status and slug lines as given
Header(id, title, slugLine, statusLine) ==
  Chars("---\nid: ") \o Chars(id) \o Chars("\ntitle: ") \o Chars(title) \o Chars("\n")
  \o Chars(slugLine) \o Chars(statusLine)
  \o Chars("priority: high\ncreated_at: 2026-01-01\nupdated_at: 2026-01-02\n---\n")

File(name, text) == [name |-> Chars(name), text |-> text]

LintOk ==
  File("TKT-001-ok.md",
       Header("TKT-001", "Fix login", "slug: TKT-001-fix-login\n", "status: open\n")
         \o GoodBody)

LintBadStatus ==
  File("TKT-002-status.md",
       Header("TKT-002", "Fix login", "slug: TKT-002-fix-login\n", "status: in-review\n")
         \o GoodBody)

LintNoSlugNoStatus ==
  File("TKT-003-fix.md", Header("TKT-003", "Fix Login Form", "", "") \o GoodBody)

LintNoHeader == File("TKT-004-plain.md", Chars("# Notes\n"))

LintOpenHeader == File("TKT-005-open.md", Chars("---\nid: TKT-005\n"))

LintEmptyHeader == File("TKT-006-empty.md", Chars("---\n---\n") \o GoodBody)

LintScalarHeader == File("TKT-007-text.md", Chars("---\nab\n---\n") \o GoodBody)

LintBadYaml == File("TKT-008-bad.md", Chars("---\nid: [\n---\n") \o GoodBody)

LintNumberTitle ==
  File("TKT-009-num.md", Header("TKT-009", "123", "", "status: open\n") \o GoodBody)

LintNoNotes ==
  File("TKT-010-nonotes.md",
       Header("TKT-010", "Fix login", "slug: TKT-010-fix-login\n", "status: open\n")
         \o Chars("\n## Description\n\nThe login form fails."))

LintNotesPrefix ==
  File("TKT-011-prefix.md",
       Header("TKT-011", "Fix login", "slug: TKT-011-fix-login\n", "status: open\n")
         \o Chars("\n## Description\n\nThe login form fails.\n\n")
         \o Chars("## Notes on testing\n\nRun the suite twice.\n"))

LintFirstShort ==
  File("TKT-012-short.md",
       Header("TKT-012", "Fix login", "slug: TKT-012-fix-login\n", "status: open\n")
         \o Chars("\n## Description\n\n## Notes\n\nSee the server log.\n"))

LintLaterShort ==
  File("TKT-013-later.md",
       Header("TKT-013", "Fix login", "slug: TKT-013-fix-login\n", "status: open\n")
         \o Chars("\n## Description\n\nThe login form fails.\n\n## Notes\n\nTBD\n"))

LintIntroShort ==
  File("TKT-014-intro.md",
       Header("TKT-014", "Fix login", "slug: TKT-014-fix-login\n", "status: open\n")
         \o Chars("Summary first.\n\n## Description\n\nshort\n\n## Notes\n\nSee the server log.\n"))

LintDraft ==
  File("draft.md",
       Chars("---\ntitle: \"???\"\nstatus: open\npriority: high\n")
         \o Chars("created_at: 2026-01-01\nupdated_at: 2026-01-02\n---\n") \o GoodBody)

\* a ticket without an id under a name that gives none; its header is written the way
\* yaml.dump writes it
LintNoId ==
  File("idea.md",
       Chars("---\ntitle: An idea\nslug: an-idea\nstatus: open\npriority: high\n")
         \o Chars("created_at: 2026-01-01T00:00:00.000Z\n")
         \o Chars("updated_at: 2026-01-02T00:00:00.000Z\n---\n") \o GoodBody)

LintFiles ==
  { LintOk, LintBadStatus, LintNoSlugNoStatus, LintNoHeader, LintOpenHeader,
    LintEmptyHeader, LintScalarHeader, LintBadYaml, LintNumberTitle, LintNoNotes,
    LintNotesPrefix, LintFirstShort, LintLaterShort, LintIntroShort, LintDraft,
    LintNoId }

\* the tickets directories a lint run starts from: one file, or two of them
LintDirs ==
  { <<f>> : f \in LintFiles }
  \cup { <<LintEmptyHeader, LintNoSlugNoStatus>>, <<LintNoSlugNoStatus, LintEmptyHeader>>,
         <<LintBadYaml, LintNoNotes>>, <<LintNumberTitle, LintNoSlugNoStatus>>,
         <<LintOk, LintBadStatus>>, <<LintDraft, LintNoNotes>>,
         <<File("notes.txt", Chars("not a ticket"))>>, <<>> }

--------------------------------------------------------------------------
(* The lint command: one run is one process *)

\* fs.readdirSync(ticketDir).filter(file => file.endsWith('.md')), the first file only
FilesToCheckFirst(names) ==
  IF Len(MdFiles(names)) = 0 THEN <<>> ELSE <<MdFiles(names)[1]>>

\* fs.readdirSync(ticketDir).filter(file => file.endsWith('.md'))
FilesToCheck(names) == MdFiles(names)

\* the status of a run whatever its Results
ExitCodeZero(results) == 0

\* results.some(result => result.errors.length > 0) ? 1 : 0
ExitCode(results) ==
  IF \E i \in 1..Len(results) : Len(results[i].errors) > 0 THEN 1 ELSE 0

\* the record of a finished lint run, with the directory as the run leaves it
LintRun(run, code) ==
  [op |-> "lint", fixMode |-> run.fixMode, config |-> run.config, before |-> run.before,
   after |-> dir, files |-> run.files, results |-> run.results, reads |-> run.reads,
   written |-> run.written, exit |-> code]

\* lintCommand up to the list of files to check: flags read, configuration and
\* template loaded, the tickets directory listed
LintStart(p, fixMode, config) ==
  /\ pc[p] = "start"
  /\ UNCHANGED <<dirState, dir, clock>>
  /\ LET files == FilesToCheck(FileNames)
         run == [fixMode |-> fixMode, config |-> config, before |-> dir,
                 requiredFields |-> getRequiredFrontmatter(config),
                 requiredSections |-> getRequiredSections(config),
                 files |-> files, results |-> <<>>, reads |-> <<>>, written |-> <<>>]
         none == [fixMode |-> fixMode, config |-> config, before |-> dir,
                  files |-> <<>>, results |-> <<>>, reads |-> <<>>, written |-> <<>>]
     IN  IF ~config.templateExists \/ dirState # "ok"
         THEN /\ last' = [last EXCEPT ![p] = LintRun(none, 1)]
              /\ pc' = [pc EXCEPT ![p] = "done"]
              /\ loc' = [loc EXCEPT ![p] = Idle]
         ELSE IF Len(files) = 0
         THEN /\ last' = [last EXCEPT ![p] = LintRun(none, 0)]
              /\ pc' = [pc EXCEPT ![p] = "done"]
              /\ loc' = [loc EXCEPT ![p] = Idle]
         ELSE /\ pc' = [pc EXCEPT ![p] = "lint"]
              /\ loc' = [loc EXCEPT ![p] = run]
              /\ UNCHANGED last

\* a lint run of the sequence of runs: the second starts when the first has exited,
\* under the same configuration
LintBegin(p, fixMode, config) ==
  /\ p # 1 => /\ pc[1] = "done"
              /\ config = last[1].config
  /\ LintStart(p, fixMode, config)

\* the write that leaves the file as it was
LintWriteNothing(entries, name, text) == entries

\* fs.writeFileSync(filePath, newFileContent) on a file of the directory
LintWrite(entries, name, text) ==
  [i \in 1..Len(entries) |->
     IF entries[i].name = name THEN [name |-> name, text |-> text] ELSE entries[i]]

\* the arguments of one validateTicketFile call, and what the file system will do
Call(run, name, readable, writable, currentDate) ==
  [filename |-> name, config |-> run.config, requiredFields |-> run.requiredFields,
   requiredSections |-> run.requiredSections, fixMode |-> run.fixMode,
   readable |-> readable, writable |-> writable, currentDate |-> currentDate]

\* what one validateTicketFile call leaves: the file rewritten if it wrote, the Result
\* appended to the results of the run
Checked(p, run, name, readable, r) ==
  /\ dir' = IF r.written THEN LintWrite(dir, name, r.text) ELSE dir
  /\ loc' = [loc EXCEPT ![p] =
               [run EXCEPT !.results = Append(@, r.result),
                           !.reads = Append(@, readable),
                           !.written = Append(@, r.written)]]
  /\ pc' = [pc EXCEPT ![p] = IF r.threw THEN "crashed" ELSE "lint"]

\* the file the next turn of filesToCheck.map is about
NextFile(run) == run.files[Len(run.results) + 1]

\* one turn of filesToCheck.map(validateTicketFile): the next file is read, validated
\* and, in fix mode, rewritten
LintFile(p, readable, writable) ==
  /\ pc[p] = "lint"
  /\ Len(loc[p].results) < Len(loc[p].files)
  /\ UNCHANGED <<dirState, clock, last>>
  /\ Checked(p, loc[p], NextFile(loc[p]), readable,
             validateTicketFile(Call(loc[p], NextFile(loc[p]), readable, writable,
                                     ToISOString(clock)),
                                FileText(NextFile(loc[p]))))

\* displayResults and process.exit(hasErrors ? 1 : 0)
LintExit(p) ==
  /\ pc[p] = "lint"
  /\ Len(loc[p].results) = Len(loc[p].files)
  /\ last' = [last EXCEPT ![p] = LintRun(loc[p], ExitCode(loc[p].results))]
  /\ pc' = [pc EXCEPT ![p] = "done"]
  /\ loc' = [loc EXCEPT ![p] = Idle]
  /\ UNCHANGED <<dirState, dir, clock>>

LintInit ==
  /\ dirState \in {"ok", "missing"}
  /\ dir \in IF dirState = "ok" THEN LintDirs ELSE {<<>>}
  /\ clock = 1
  /\ pc = [p \in Procs |-> "start"]
  /\ loc = [p \in Procs |-> Idle]
  /\ last = [p \in Procs |-> Idle]

LintNext ==
  \E p \in Procs :
    \/ \E fixMode \in BOOLEAN, config \in Configs : LintBegin(p, fixMode, config)
    \/ \E readable \in BOOLEAN, writable \in BOOLEAN : LintFile(p, readable, writable)
    \/ LintExit(p)

LintSpec == LintInit /\ [][LintNext]_vars

--------------------------------------------------------------------------
(* Properties of the lint command *)

\* the processes with a lint run in progress, stopped by an exception, or finished
HasRun(p) == pc[p] \in {"lint", "crashed"} \/ last[p].op = "lint"

\* the record of the lint run of process p
RunOf(p) == IF pc[p] \in {"lint", "crashed"} THEN loc[p] ELSE last[p]

\* the text of the named file among the entries of a directory
TextIn(entries, name) ==
  entries[CHOOSE i \in 1..Len(entries) : entries[i].name = name].text

\* the i-th file of the run is the given ticket, unchanged when the run started
IsFile(run, i, file) ==
  /\ run.files[i] = file.name
  /\ TextIn(run.before, file.name) = file.text

\* the i-th file of the run is the fully compliant ticket, read under rules it meets
Compliant(run, i) ==
  /\ IsFile(run, i, LintOk)
  /\ run.reads[i]
  /\ Member(ValidStatuses(run.config), Str(Chars("open")))

\* C12: validateTicketFile never throws: whatever the file content, the rule set,
\* the mode and the outcome of the read and of the write, the call returns a Result
\* for the file it was given, and the Result of a fully compliant ticket has an
\* empty error list.
ValidateNeverThrows ==
  \A p \in Procs :
    /\ pc[p] # "crashed"
    /\ HasRun(p) =>
         \A i \in 1..Len(RunOf(p).results) :
           /\ RunOf(p).results[i].filename = RunOf(p).files[i]
           /\ Compliant(RunOf(p), i) => RunOf(p).results[i].errors = <<>>

\* a run returned a Result for a ticket whose header block is empty
EmptyHeaderReported ==
  \E p \in Procs :
    /\ last[p].op = "lint"
    /\ \E i \in 1..Len(last[p].results) :
         /\ IsFile(last[p], i, LintEmptyHeader)
         /\ last[p].reads[i]
         /\ last[p].results[i].errors = <<ReadFailed \o Chars("error")>>

\* the names of the entries of a directory
NamesIn(entries) == [i \in 1..Len(entries) |-> entries[i].name]

\* the rule set a finished run applied
RulesOf(run) ==
  [fixMode |-> run.fixMode, config |-> run.config,
   requiredFields |-> getRequiredFrontmatter(run.config),
   requiredSections |-> getRequiredSections(run.config)]

\* validateTicketFile on the i-th file of the run taken alone, as the file was when
\* the run started
Alone(run, i, writable) ==
  validateTicketFile(Call(RulesOf(run), run.files[i], run.reads[i], writable,
                          ToISOString(clock)),
                     TextIn(run.before, run.files[i]))

\* the i-th Result of the run and the text the run left in the i-th file are those
\* of the call r
SameAs(run, i, r) ==
  /\ run.results[i] = r.result
  /\ run.written[i] = r.written
  /\ TextIn(run.after, run.files[i]) =
       IF r.written THEN r.text ELSE TextIn(run.before, run.files[i])

\* the run got as far as the list of files to check
Listed(run) == run.config.templateExists /\ dirState = "ok"

\* C13: a lint run that reaches its list of files processes every .md file of the
\* directory and produces exactly one Result per file, in order; the Result of each
\* file and the text the run leaves in it are those of validating that file alone,
\* whatever happened to the other files, and no other entry of the directory changes.
OneResultPerFile ==
  \A p \in Procs :
    (last[p].op = "lint" /\ Listed(last[p])) =>
      /\ last[p].files = MdFiles(NamesIn(last[p].before))
      /\ Len(last[p].results) = Len(last[p].files)
      /\ NamesIn(last[p].after) = NamesIn(last[p].before)
      /\ \A i \in 1..Len(last[p].files) :
           \E writable \in BOOLEAN : SameAs(last[p], i, Alone(last[p], i, writable))
      /\ \A j \in 1..Len(last[p].before) :
           (\A i \in 1..Len(last[p].files) : last[p].files[i] # last[p].before[j].name)
             => last[p].after[j] = last[p].before[j]

\* a fix run whose first file failed in validateFrontmatter and whose second file was
\* then fixed and rewritten
SecondFixedAfterFirstFailed ==
  \E p \in Procs :
    /\ last[p].op = "lint"
    /\ Len(last[p].files) = 2
    /\ IsFile(last[p], 1, LintEmptyHeader)
    /\ last[p].results[1].errors = <<ReadFailed \o Chars("error")>>
    /\ last[p].results[2].fixed
    /\ last[p].written = <<FALSE, TRUE>>

\* whether a sequence holds the element
InSeq(seq, x) == \E i \in 1..Len(seq) : seq[i] = x

\* the body of a ticket file: what follows the header block
BodyOf(text) == JoinWith(SubSeq(SplitOn(text, DELIM), 3, Len(SplitOn(text, DELIM))), DELIM)

\* the body has a '## ' header whose trimmed name is exactly the given one
HasSection(body, name) ==
  \E i \in 1..Len(SplitOn(body, <<NL>>)) :
    /\ IsHeaderLine(SplitOn(body, <<NL>>)[i])
    /\ HeaderName(SplitOn(body, <<NL>>)[i]) = name

\* the Result comes from a call that got as far as validating the sections
SectionsValidated(result) ==
  \A k \in 1..Len(result.errors) :
    /\ ~StartsWith(result.errors[k], Chars("File must start"))
    /\ ~StartsWith(result.errors[k], Chars("Invalid frontmatter format"))
    /\ ~StartsWith(result.errors[k], Chars("Invalid YAML frontmatter"))
    /\ ~StartsWith(result.errors[k], ReadFailed)

\* the i-th Result of a run without fixes reports section name as missing exactly
\* when the body has no header of that exact name
ReportsMissingExactly(run, i, name) ==
  /\ InSeq(run.results[i].errors, MissingSectionError(name))
       <=> ~HasSection(BodyOf(TextIn(run.before, run.files[i])), name)
  /\ InSeq(run.results[i].missingSections, name)
       <=> ~HasSection(BodyOf(TextIn(run.before, run.files[i])), name)

\* C14: for every required section name N, validation emits 'Missing required
\* section: ## N' and records N in missingSections if and only if the body holds no
\* '## ' header whose trimmed name is exactly N.
MissingSectionIffNoExactHeader ==
  \A p \in Procs :
    (last[p].op = "lint" /\ ~last[p].fixMode) =>
      \A i \in 1..Len(last[p].results) :
        SectionsValidated(last[p].results[i]) =>
          \A k \in 1..Len(getRequiredSections(last[p].config)) :
            ReportsMissingExactly(last[p], i, getRequiredSections(last[p].config)[k])

\* the last line of the section whose header is line i: the line before the next
\* header, or the last line
SectionEnd(lines, i) ==
  IF \E j \in (i + 1)..Len(lines) : IsHeaderLine(lines[j])
  THEN (CHOOSE j \in (i + 1)..Len(lines) :
          /\ IsHeaderLine(lines[j])
          /\ \A k \in (i + 1)..(j - 1) : ~IsHeaderLine(lines[k])) - 1
  ELSE Len(lines)

\* the trimmed body of the section whose header is line i
BodyUnder(lines, i) == Trim(JoinLines(SubSeq(lines, i + 1, SectionEnd(lines, i))))

\* the Result reports the section whose header is line i as empty or too short
\* exactly when its trimmed body has fewer than ten characters
ReportsShortExactly(result, lines, i) ==
  InSeq(result.errors, ShortSectionError(HeaderName(lines[i])))
    <=> Len(BodyUnder(lines, i)) < MinBody

\* C15: for every section that exists in the body, whatever its position,
\* validation emits the 'appears to be empty or too short' message for that section
\* if and only if its trimmed body is empty or shorter than 10 characters.
ShortSectionIffShortBody ==
  \A p \in Procs :
    last[p].op = "lint" =>
      \A i \in 1..Len(last[p].results) :
        SectionsValidated(last[p].results[i]) =>
          \A k \in 1..Len(SplitLines(BodyOf(TextIn(last[p].before, last[p].files[i])))) :
            IsHeaderLine(SplitLines(BodyOf(TextIn(last[p].before, last[p].files[i])))[k])
              => ReportsShortExactly(
                   last[p].results[i],
                   SplitLines(BodyOf(TextIn(last[p].before, last[p].files[i]))), k)

\* the header block of a ticket file as yaml.load gives it
LoadedHeader(text) == YamlLoad(SplitOn(text, DELIM)[2])

\* no error of the Result starts with the given words
NoErrorAbout(result, words) ==
  \A k \in 1..Len(result.errors) : ~StartsWith(result.errors[k], words)

\* the one error a ticket with status in-review gets under the given options
InReviewError(options) ==
  Chars("Invalid status \"in-review\". Must be one of: ") \o JoinWith(options, Chars(", "))

\* a value that is a member of the options gets no enum error in the Result
MemberNotReported(result, doc, config) ==
  /\ Member(ValidStatuses(config), Field(doc, Chars("status")))
       => NoErrorAbout(result, Chars("Invalid status"))
  /\ Member(ValidPriorities(config), Field(doc, Chars("priority")))
       => NoErrorAbout(result, Chars("Invalid priority"))

\* C16: a ticket whose only defect is a status that is not among the supplied
\* status options gets exactly one error, which names the invalid value and lists
\* the valid options; a status or priority that is among the supplied options
\* produces no enum error.
InvalidStatusIsTheOnlyError ==
  \A p \in Procs :
    last[p].op = "lint" =>
      \A i \in 1..Len(last[p].results) :
        /\ (IsFile(last[p], i, LintBadStatus) /\ last[p].reads[i])
             => last[p].results[i].errors
                  = <<InReviewError(ValidStatuses(last[p].config))>>
        /\ (last[p].reads[i] /\ SectionsValidated(last[p].results[i]))
             => MemberNotReported(last[p].results[i],
                                  LoadedHeader(TextIn(last[p].before, last[p].files[i])),
                                  last[p].config)

\* a run under a configuration with its own status options reported the ticket with
\* status in-review
InReviewReported ==
  \E p \in Procs :
    /\ last[p].op = "lint"
    /\ last[p].config.statusGiven
    /\ \E i \in 1..Len(last[p].results) :
         /\ IsFile(last[p], i, LintBadStatus)
         /\ last[p].reads[i]
         /\ Len(last[p].results[i].errors) = 1
         /\ Includes(last[p].results[i].errors[1], Chars("\"in-review\""))

\* a finished run that wrote nothing: the directory as it found it, no file written,
\* no Result marked fixed
ReadOnly(run) ==
  /\ run.after = run.before
  /\ \A i \in 1..Len(run.results) : ~run.written[i] /\ ~run.results[i].fixed

\* C17: validation without the fix flag is read-only and repeatable: a run without
\* --fix never writes a ticket file and never reports fixed = true, and two such
\* runs over the same unmodified files with the same rules and the same read
\* outcomes yield identical Results.
NoFixIsReadOnlyAndRepeatable ==
  /\ \A p \in Procs :
       /\ (pc[p] = "lint" /\ ~loc[p].fixMode) => dir = loc[p].before
       /\ (last[p].op = "lint" /\ ~last[p].fixMode) => ReadOnly(last[p])
  /\ (/\ last[1].op = "lint" /\ ~last[1].fixMode
      /\ last[2].op = "lint" /\ ~last[2].fixMode
      /\ last[1].config = last[2].config
      /\ last[1].reads = last[2].reads)
       => /\ last[2].before = last[1].before
          /\ last[2].results = last[1].results
          /\ last[2].exit = last[1].exit

\* two runs without --fix, one after the other, both reported the same missing slug
\* and left the file alone
MissingSlugReportedTwice ==
  /\ last[1].op = "lint" /\ ~last[1].fixMode
  /\ last[2].op = "lint" /\ ~last[2].fixMode
  /\ Len(last[1].results) > 0
  /\ InSeq(last[1].results[1].errors, MissingFieldError(Chars("slug")))
  /\ last[2].results = last[1].results
  /\ dir = last[1].before

\* the i-th file of the run had no truthy value for the field when the run started
LacksField(run, i, field) ==
  /\ LoadedHeader(TextIn(run.before, run.files[i])).kind = "map"
  /\ ~IsTruthy(Field(LoadedHeader(TextIn(run.before, run.files[i])), field))

\* the first run fixed and rewrote its i-th file, and a second run without --fix then
\* read the rewritten file under the same rules
FixedThenValidated(i) ==
  /\ last[1].op = "lint" /\ last[1].fixMode
  /\ i \in 1..Len(last[1].results)
  /\ last[1].written[i]
  /\ last[2].op = "lint" /\ ~last[2].fixMode
  /\ last[2].reads[i]

\* C18: for every document that is missing slug and/or status, after a fix pass on
\* it, validating the rewritten file reports no 'Missing required frontmatter field'
\* error for slug and none for status.
FixSuppliesSlugAndStatus ==
  \A i \in 1..Len(dir) :
    (/\ FixedThenValidated(i)
     /\ LacksField(last[1], i, Chars("slug")) \/ LacksField(last[1], i, Chars("status")))
      => /\ ~InSeq(last[2].results[i].errors, MissingFieldError(Chars("slug")))
         /\ ~InSeq(last[2].results[i].errors, MissingFieldError(Chars("status")))

\* the default body of a section in the template: the lines under its header
TemplateBody(template, name) ==
  BodyUnder(SplitLines(template),
            CHOOSE k \in 1..Len(SplitLines(template)) :
              /\ IsHeaderLine(SplitLines(template)[k])
              /\ HeaderName(SplitLines(template)[k]) = name)

\* the body a fix is to give a missing section: the template's, or the placeholder
\* when the template has no such section
ExpectedBody(template, name) ==
  IF HasSection(template, name) THEN TemplateBody(template, name)
  ELSE Chars("TODO: Add content for this section")

\* the body under the header of exactly that name
BodyOfSection(body, name) ==
  BodyUnder(SplitLines(body),
            CHOOSE k \in 1..Len(SplitLines(body)) :
              /\ IsHeaderLine(SplitLines(body)[k])
              /\ HeaderName(SplitLines(body)[k]) = name)

\* the first run validated its i-th file in fix mode and no write failed
FixPassed(i) ==
  /\ last[1].op = "lint" /\ last[1].fixMode
  /\ i \in 1..Len(last[1].results)
  /\ last[1].reads[i]
  /\ SectionsValidated(last[1].results[i])
  /\ NoErrorAbout(last[1].results[i], Chars("Failed to write fixes"))

\* the rewritten body is the old one with the section appended under its own header
\* and with the expected body, surrounding blank lines aside
SectionAppended(before, after, template, name) ==
  /\ StartsWith(after, before)
  /\ HasSection(after, name)
  /\ BodyOfSection(after, name) = ExpectedBody(template, name)

\* C19: for every required section that is missing from a ticket, a fix pass
\* appends '## <name>' followed by the template's default body for that section (or
\* the TODO placeholder when the template has no such section) at the end of the
\* body, and a subsequent validation of the rewritten file no longer reports that
\* section as missing.
FixAppendsMissingSections ==
  \A i \in 1..Len(dir) :
    FixPassed(i) =>
      \A k \in 1..Len(getRequiredSections(last[1].config)) :
        ~HasSection(BodyOf(TextIn(last[1].before, last[1].files[i])),
                    getRequiredSections(last[1].config)[k])
          => /\ last[1].written[i]
             /\ SectionAppended(BodyOf(TextIn(last[1].before, last[1].files[i])),
                                BodyOf(TextIn(last[1].after, last[1].files[i])),
                                last[1].config.template,
                                getRequiredSections(last[1].config)[k])
             /\ (last[2].op = "lint" /\ ~last[2].fixMode /\ last[2].reads[i])
                  => ~InSeq(last[2].results[i].errors,
                            MissingSectionError(getRequiredSections(last[1].config)[k]))

\* every 'Missing required ...' error of the later Result is also in the earlier one
KeepsMissingErrors(earlier, later) ==
  \A k \in 1..Len(later.errors) :
    IsMissingError(later.errors[k]) => InSeq(earlier.errors, later.errors[k])

\* C20: after a fix pass that writes the file, the Result still holds every error
\* that remains true of the rewritten file: a 'missing field' or 'missing section'
\* error is removed only for an item the pass actually supplied, so every such
\* error that validating the rewritten file reports is still in the Result of the
\* fix pass.
UnresolvedErrorsRemain ==
  \A i \in 1..Len(dir) :
    FixedThenValidated(i) => KeepsMissingErrors(last[1].results[i], last[2].results[i])

\* the fix pass gave the field a value the header did not have
FieldSupplied(before, after, field) ==
  /\ ~IsTruthy(Field(LoadedHeader(before), field))
  /\ Field(LoadedHeader(after), field) # Field(LoadedHeader(before), field)

\* the fix pass changed the ticket: a required field supplied, or text added to the body
ChangeMade(before, after, requiredFields) ==
  \/ \E k \in 1..Len(requiredFields) : FieldSupplied(before, after, requiredFields[k])
  \/ BodyOf(after) # BodyOf(before)

\* C21: a Result has fixed = true only if the fix pass made at least one change to
\* the ticket: at least one missing field or missing section was actually added to
\* the written file.
FixedOnlyIfChanged ==
  \A p \in Procs :
    last[p].op = "lint" =>
      \A i \in 1..Len(last[p].results) :
        last[p].results[i].fixed
          => ChangeMade(TextIn(last[p].before, last[p].files[i]),
                        TextIn(last[p].after, last[p].files[i]),
                        getRequiredFrontmatter(last[p].config))

--------------------------------------------------------------------------
(* Two processes on one ticket file: each an update or a lint run in fix    *)
(* mode, started together.  Between the read of a process and its write     *)
(* the other process may read and write.                                    *)

RaceConfig == Config(FALSE, <<>>, TRUE, TplStandard)

RaceUpdates == { <<E("title", "Hi")>>, <<E("Description", "new text")>> }

\* fs.readFileSync(filePath, 'utf-8') of validateTicketFile: the text is kept until
\* the call writes
FixRead(p) ==
  /\ pc[p] = "lint"
  /\ Len(loc[p].results) < Len(loc[p].files)
  /\ pc' = [pc EXCEPT ![p] = "fix"]
  /\ loc' = [loc EXCEPT ![p] = [content |-> FileText(NextFile(loc[p]))] @@ loc[p]]
  /\ UNCHANGED <<dirState, dir, clock, last>>

\* what the validateTicketFile call of process p returns and writes, from the text
\* it read
FixOutcome(p) ==
  validateTicketFile(Call(loc[p], NextFile(loc[p]), TRUE, TRUE, ToISOString(clock)),
                     loc[p].content)

\* the rest of validateTicketFile: validation, fixes and fs.writeFileSync
FixWrite(p) ==
  /\ pc[p] = "fix"
  /\ UNCHANGED <<dirState, clock, last>>
  /\ Checked(p, loc[p], NextFile(loc[p]), TRUE, FixOutcome(p))

RaceInit ==
  /\ dirState = "ok"
  /\ dir = <<[name |-> SubjectName, text |-> TextStandard]>>
  /\ clock = 1
  /\ pc = [p \in Procs |-> "start"]
  /\ loc = [p \in Procs |-> Idle]
  /\ last = [p \in Procs |-> Idle]

RaceNext ==
  \E p \in Procs :
    \/ Resolve(p, Chars("7"))
    \/ Parse(p, TRUE)
    \/ \E updates \in RaceUpdates : UpdateBegin(p, updates, TRUE)
    \/ UpdateWrite(p, "ok", 1)
    \/ LintStart(p, TRUE, RaceConfig)
    \/ FixRead(p)
    \/ FixWrite(p)
    \/ LintExit(p)

RaceSpec == RaceInit /\ [][RaceNext]_vars

\* process p takes its writing step
Writes(p) == pc[p] \in {"write", "fix"} /\ pc'[p] # pc[p]

\* the text the writing step of process p leaves in the file: what updateTicket
\* reconstructed, or what the fix built, each from the text that process read; the
\* file as it is when the fix pass found nothing to supply
OutputOf(p) ==
  IF pc[p] = "write" THEN loc[p].plan.reconstructed
  ELSE IF FixOutcome(p).written THEN FixOutcome(p).text
  ELSE FileText(SubjectName)

\* C22: two processes read, modify and write back the same ticket file with no lock
\* and no change check: every write leaves the file holding exactly the output of
\* the process that writes, computed from what that process read, and nothing but
\* such a write changes the file, so every interleaving ends with the output of the
\* process that wrote last.
LastWriterWins ==
  [][/\ \A p \in Procs : Writes(p) => FileText(SubjectName)' = OutputOf(p)
     /\ dir' # dir => \E p \in Procs : Writes(p)]_vars

\* an update of the title and a fix pass both reported success, and the file holds
\* the output of the fix pass with the old title: the update is lost
UpdateLostToFix ==
  \E p \in Procs, q \in Procs :
    /\ pc[p] = "done" /\ pc[q] = "done"
    /\ last[p].op = "update"
    /\ last[p].updates = <<E("title", "Hi")>>
    /\ last[p].result.kind = "ok"
    /\ last[q].op = "lint"
    /\ last[q].results[1].fixed
    /\ Len(last[q].results[1].warnings) > 0
    /\ Includes(FileText(SubjectName), Chars("title: Foo"))
    /\ ~Includes(FileText(SubjectName), Chars("title: Hi"))
    /\ Includes(FileText(SubjectName), Chars("priority: medium"))

--------------------------------------------------------------------------
(* Properties of the exit status of a lint run *)

\* some Result of the run holds an error
SomeError(run) == \E i \in 1..Len(run.results) : Len(run.results[i].errors) > 0

--------------------------------------------------------------------------
(* Properties of updateTicket on a header with duplicate keys *)

\* the header lines that start with the key and a colon
LinesFor(lines, key) == {i \in 1..Len(lines) : StartsWith(lines[i], key \o Chars(":"))}

\* the keys an update targets in the header: updated_at, and slug and title when given
TargetKeys(u) ==
  {k \in {K_slug, K_title} : Given(u.updates, k)} \cup {K_updated_at}

\* the line an update stores for a key
StoredLine(u, k) == k \o Chars(": ") \o StoredValue(u, k)

\* C24 as stated: when the header holds two or more lines for the same target key,
\* an update rewrites the first such line only and leaves every later duplicate
\* unchanged.
FirstDuplicateOnly ==
  \A p \in Calls("update") :
    (Len(last[p].updates) > 0 /\ last[p].result.kind = "ok") =>
      \A k \in TargetKeys(last[p]) :
        \A i \in LinesFor(last[p].ticketData.yamlLines, k) :
          HeaderOf(last[p].result.newPath)[i] =
            IF i = Least(LinesFor(last[p].ticketData.yamlLines, k))
            THEN StoredLine(last[p], k)
            ELSE last[p].ticketData.yamlLines[i]

\* C24 amended: when the header holds two or more lines that start with the same
\* target key, an update rewrites every one of them, each where it stands and all
\* to the same new line, and adds no line for that key.
EveryDuplicateRewritten ==
  \A p \in Calls("update") :
    (Len(last[p].updates) > 0 /\ last[p].result.kind = "ok") =>
      \A k \in TargetKeys(last[p]) :
        /\ \A i \in LinesFor(last[p].ticketData.yamlLines, k) :
             HeaderOf(last[p].result.newPath)[i] = StoredLine(last[p], k)
        /\ LinesFor(last[p].ticketData.yamlLines, k) # {} =>
             LinesFor(HeaderOf(last[p].result.newPath), k)
               = LinesFor(last[p].ticketData.yamlLines, k)

\* an update of the slug succeeded on a header with two slug lines and both hold the
\* new slug
BothSlugLinesRewritten ==
  \E p \in Calls("update") :
    /\ last[p].result.kind = "ok"
    /\ Given(last[p].updates, K_slug)
    /\ Cardinality(LinesFor(last[p].ticketData.yamlLines, K_slug)) = 2
    /\ \A i \in LinesFor(last[p].ticketData.yamlLines, K_slug) :
         HeaderOf(last[p].result.newPath)[i] = Chars("slug: TKT-007-new")

--------------------------------------------------------------------------
(* Properties of the header lines parseTicket reads *)

\* the number of the file line that closes the header block
ClosingLine(lines) == Least({n \in 2..Len(lines) : lines[n] = DELIM})

\* the text has a first line '---', a later line '---' and at least three lines
Delimited(text) ==
  /\ Len(Trim(text)) > 0
  /\ Len(SplitLines(text)) >= 3
  /\ SplitLines(text)[1] = DELIM
  /\ \E n \in 2..Len(SplitLines(text)) : SplitLines(text)[n] = DELIM

\* the position of the first ':' of a line that has one
FirstColon(line) == Least({j \in 1..Len(line) : line[j] = ":"})

HasColon(line) == \E j \in 1..Len(line) : line[j] = ":"

KeyText(line) == Trim(SubSeq(line, 1, FirstColon(line) - 1))

ValueText(line) == Trim(SubSeq(line, FirstColon(line) + 1, Len(line)))

\* file line n is recorded as a field of the document: its key holds its value, or
\* the value of a later line with the same key
RecordedAsField(doc, lines, n) ==
  /\ KeyText(lines[n]) \in DOMAIN doc.metadata
  /\ \/ doc.metadata[KeyText(lines[n])] = ValueText(lines[n])
     \/ \E m \in (n + 1)..(ClosingLine(lines) - 1) :
          HasColon(lines[m]) /\ KeyText(lines[m]) = KeyText(lines[n])
  /\ ~InSeq(doc.invalidLines, n)

\* file line n of the header block is a field, or is reported with its number
FieldOrWarned(doc, lines, n) ==
  IF HasColon(lines[n]) /\ Len(KeyText(lines[n])) > 0
  THEN RecordedAsField(doc, lines, n)
  ELSE InSeq(doc.invalidLines, n)

\* C25: for every non-blank header line, parseTicket either records it as a field
\* whose key is the trimmed text before the line's first ':' and whose value is the
\* trimmed text after it, or, when that key is empty or the line has no ':', reports
\* it in a warning with its 1-based line number in the file; such lines, and a
\* missing id or title, never make parsing fail.
HeaderLinesFieldsOrWarnings ==
  \A p \in Calls("parse") :
    Len(last[p].read) = 1 =>
      /\ Delimited(last[p].read[1]) <=> last[p].result.kind = "doc"
      /\ last[p].result.kind = "doc" =>
           \A n \in 2..(ClosingLine(SplitLines(last[p].read[1])) - 1) :
             IF Len(Trim(SplitLines(last[p].read[1])[n])) = 0
             THEN ~InSeq(last[p].result.invalidLines, n)
             ELSE FieldOrWarned(last[p].result, SplitLines(last[p].read[1]), n)

\* a header with no id, a line without a colon on file line 4 and a line without a
\* key on file line 5 was parsed
LinesFourAndFiveWarned ==
  \E p \in Calls("parse") :
    /\ last[p].result.kind = "doc"
    /\ last[p].read = <<TextNoId>>
    /\ last[p].result.invalidLines = <<4, 5>>
    /\ last[p].result.warnId
    /\ last[p].result.metadata[K_title] = Chars("Foo")

--------------------------------------------------------------------------
(* vibe new: getNextTicketId and createSlug of the utilities, newCommand *)

DigitChars == Chars("0123456789")

\* parseInt(digits, 10) of a run of decimal digits (far below 2^53 in this model)
RECURSIVE ParseInt(_)
ParseInt(digits) ==
  IF Len(digits) = 0 THEN 0
  ELSE 10 * ParseInt(SubSeq(digits, 1, Len(digits) - 1))
       + (CHOOSE k \in 0..9 : DigitChars[k + 1] = digits[Len(digits)])

\* String(n) of a non-negative integer
RECURSIVE NumberString(_)
NumberString(n) ==
  IF n < 10 THEN <<DigitChars[n + 1]>>
  ELSE NumberString(n \div 10) \o <<DigitChars[(n % 10) + 1]>>

\* the digits captured by /^TKT-(\d+)/, empty when the name does not match
CapturedDigits(name) ==
  IF StartsWith(name, TKT) THEN SubSeq(name, 5, 4 + DigitRun(SubstringFrom(name, 4)))
  ELSE <<>>

\* the numbers of the .md files that match /^TKT-(\d+)/, those not above zero dropped
ticketNumbers(names) ==
  LET files == MdFiles(names)
      matched == {i \in 1..Len(files) : Len(CapturedDigits(files[i])) > 0}
  IN  {n \in {ParseInt(CapturedDigits(files[i])) : i \in matched} : n > 0}

Greatest(S) == CHOOSE n \in S : \A m \in S : m <= n

\* the directory getTicketsDir names. path.resolve(cwd, tickets.path) and the
\* path.join(cwd, tickets.path) of newCommand are one directory unless tickets.path is
\* absolute: then getTicketsDir names a directory outside the project, absent here
ScannedDir(config) ==
  IF config.absolutePath THEN [state |-> "missing", names |-> <<>>]
  ELSE [state |-> dirState, names |-> FileNames]

IdWidth == 3

\* a missing directory and a failed readdirSync both give TKT-001
getNextTicketId(scanned) ==
  IF scanned.state # "ok" THEN Chars("TKT-001")
  ELSE TKT \o PadStart(NumberString(Greatest({0} \cup ticketNumbers(scanned.names)) + 1),
                       IdWidth, "0")

SlugMaxLength == 30

SlugWordLimit == 5

\* the length of the leading run of non-space characters
RECURSIVE WordLen(_)
WordLen(s) == IF Len(s) > 0 /\ ~IsSpace(s[1]) THEN 1 + WordLen(Tail(s)) ELSE 0

\* title.trim().split(/\s+/).filter(Boolean)
RECURSIVE Words(_)
Words(s) ==
  IF Len(TrimStart(s)) = 0 THEN <<>>
  ELSE <<SubSeq(TrimStart(s), 1, WordLen(TrimStart(s)))>>
       \o Words(SubstringFrom(TrimStart(s), WordLen(TrimStart(s))))

\* String.prototype.lastIndexOf for one character: 0-based, -1 when absent
LastIndexOf(s, c) ==
  IF \E i \in 1..Len(s) : s[i] = c
  THEN (CHOOSE i \in 1..Len(s) : s[i] = c /\ \A j \in (i + 1)..Len(s) : s[j] # c) - 1
  ELSE -1

\* the slug cut to the maximum length and then back to its last hyphen
LimitLength(slug) ==
  IF Len(slug) <= SlugMaxLength THEN slug
  ELSE IF LastIndexOf(SubstringTo(slug, SlugMaxLength), "-") > 0
  THEN SubstringTo(slug, LastIndexOf(SubstringTo(slug, SlugMaxLength), "-"))
  ELSE SubstringTo(slug, SlugMaxLength)

LimitWords(words) ==
  SubSeq(words, 1, IF Len(words) < SlugWordLimit THEN Len(words) ELSE SlugWordLimit)

\* createSlug under the default max_length and word_limit
createSlug(title) ==
  IF Len(title) = 0 THEN <<>>
  ELSE IF Len(LimitLength(Slugify(JoinWith(LimitWords(Words(title)), <<" ">>)))) = 0
  THEN Chars("untitled")
  ELSE LimitLength(Slugify(JoinWith(LimitWords(Words(title)), <<" ">>)))

\* validateOptions for one option: a value outside the configured list gives the default
ValidatedOption(value, options, default) ==
  IF Len(options) > 0 /\ ~InSeq(options, value) THEN default ELSE value

\* text.replace(/{name}/g, by)
ReplaceAll(text, sub, by) == JoinWith(SplitOn(text, sub), by)

\* text.replace(/^key: .*$/m, line): the first line that starts with 'key: '
ReplaceLine(text, prefix, line) ==
  LET lines == SplitLines(text)
      k == FirstIndex(lines, LAMBDA l : StartsWith(l, prefix))
  IN  IF k = 0 THEN text
      ELSE JoinLines([i \in 1..Len(lines) |-> IF i = k THEN line ELSE lines[i]])

createTicketContent(template, ticketData) ==
  ReplaceLine(
    ReplaceLine(
      ReplaceAll(ReplaceAll(ReplaceAll(ReplaceAll(template,
          Chars("{id}"), SubstringFrom(ticketData.ticketId, Len(TKT))),
          Chars("{title}"), ticketData.title),
          Chars("{slug}"), ticketData.slug),
          Chars("{date}"), ticketData.timestamp),
      Chars("priority: "), Chars("priority: ") \o ticketData.priority),
    Chars("status: "), Chars("status: ") \o ticketData.status)

\* .vibe/.templates/default.md as vibe init installs it, the comment bodies left out
NewTemplate ==
  Chars("---\nid: TKT-{id}\ntitle: {title}\nslug: {slug}\nstatus: open\n")
  \o Chars("priority: medium\ncreated_at: {date}\nupdated_at: {date}\n---\n")
  \o Chars("\n## Description\n")

\* the ticket newCommand is about to write
NewTicket(title, priority, status, config, timestamp) ==
  [ticketId |-> getNextTicketId(ScannedDir(config)),
   title |-> title,
   slug |-> getNextTicketId(ScannedDir(config)) \o Chars("-") \o createSlug(title),
   priority |-> ValidatedOption(priority, config.priority_options, Chars("medium")),
   status |-> ValidatedOption(status, config.status_options, Chars("open")),
   timestamp |-> timestamp]

\* newCommand fails before writing: no title, no config.yml or template, or the
\* directory it writes to is absent or refuses the write
NewFails(title, config, writable) ==
  \/ Len(Trim(title)) = 0
  \/ ~config.initialised
  \/ dirState = "missing"
  \/ ~writable

NewRun(title, config, ticket, before, exit) ==
  [op |-> "new", title |-> title, config |-> config, ticket |-> ticket,
   filename |-> ticket.slug \o MD, before |-> before, exit |-> exit]

\* vibe new <title> --priority <priority> --status <status>, AI enhancement disabled
New(p, title, priority, status, config, writable, k) ==
  /\ pc[p] = "start"
  /\ IF NewFails(title, config, writable)
     THEN /\ dir' = dir
          /\ last' = [last EXCEPT ![p] = [op |-> "new", before |-> dir, exit |-> 1]]
     ELSE /\ dir' = WriteFile(NewTicket(Trim(title), priority, status, config,
                                        ToISOString(clock)).slug \o MD,
                              createTicketContent(NewTemplate,
                                NewTicket(Trim(title), priority, status, config,
                                          ToISOString(clock))),
                              k)
          /\ last' = [last EXCEPT ![p] =
                        NewRun(Trim(title), config,
                               NewTicket(Trim(title), priority, status, config,
                                         ToISOString(clock)),
                               dir, 0)]
  /\ UNCHANGED <<dirState, clock, pc, loc>>

NewOptions == <<Chars("low"), Chars("medium"), Chars("high")>>

NewConfig(initialised, absolutePath) ==
  [initialised |-> initialised, absolutePath |-> absolutePath,
   priority_options |-> NewOptions, status_options |-> <<>>]

NewConfigs == {NewConfig(TRUE, FALSE), NewConfig(TRUE, TRUE), NewConfig(FALSE, FALSE)}

\* the command lines: a title and a --priority value
NewCommands ==
  { <<Chars("Fix bug"), Chars("high")>>, <<Chars(" fix  BUG! "), Chars("urgent")>>,
    <<Chars("???"), Chars("high")>>,
    <<Chars("Reimplement authentication subsystem a b c"), Chars("high")>>,
    <<<<>>, Chars("high")>> }

NewDirs ==
  { <<>>,
    <<[name |-> Chars("TKT-001-fix-bug.md"), text |-> TextStandard]>>,
    <<[name |-> SubjectName, text |-> TextStandard],
      [name |-> Chars("TKT-0012-big.md"), text |-> TextStandard]>>,
    <<[name |-> Chars("TKT-999-last.md"), text |-> TextStandard]>>,
    <<[name |-> Chars("TKT-009.txt"), text |-> TextStandard],
      [name |-> Chars("TKT-000-zero.md"), text |-> TextStandard]>> }

\* the ids looked up once the tickets are created
NewLookups == {Chars("100"), Chars("1000"), Chars("1"), Chars("7")}

MaxTickets == 3

NewInit ==
  /\ dirState \in {"ok", "missing", "noaccess"}
  /\ dir \in CASE dirState = "ok" -> NewDirs
              [] dirState = "missing" -> {<<>>}
              [] dirState = "noaccess" -> UnreadableDirs
  /\ clock = 1
  /\ pc = [p \in Procs |-> IF p = 1 THEN "start" ELSE "off"]
  /\ loc = [p \in Procs |-> Idle]
  /\ last = [p \in Procs |-> Idle]

NewNext ==
  \E p \in Procs :
    \/ \E input \in NewLookups : Resolve(p, input)
    \/ \E command \in NewCommands, config \in NewConfigs, writable \in BOOLEAN :
      /\ Len(dir) < MaxTickets
      /\ New(p, command[1], command[2], Chars("open"), config, writable, Len(dir) + 1)

NewSpec == NewInit /\ [][NewNext]_vars

--------------------------------------------------------------------------
(* Properties of vibe new *)

\* the number a ticket file name carries after TKT-, 0 for other names
NumberOf(name) ==
  IF EndsWith(name, MD) /\ Len(CapturedDigits(name)) > 0
  THEN ParseInt(CapturedDigits(name)) ELSE 0

IsTicketFile(name) == EndsWith(name, MD) /\ Len(CapturedDigits(name)) > 0

\* C26 as claimed: every created ticket has a number one greater than the highest
\* number among the ticket files that existed when it ran, so it shares its number
\* with no existing ticket file and overwrites no existing file.
NewIdAboveEveryExisting ==
  \A p \in Calls("new") :
    last[p].exit = 0 =>
      /\ \A i \in 1..Len(last[p].before) :
           /\ last[p].before[i].name # last[p].filename
           /\ IsTicketFile(last[p].before[i].name) =>
                NumberOf(last[p].before[i].name) < NumberOf(last[p].filename)
      /\ NumberOf(last[p].filename) =
           Greatest({0} \cup {NumberOf(last[p].before[i].name) :
                                i \in 1..Len(last[p].before)}) + 1

\* the same, for runs whose tickets path is relative and whose directory is readable
NewIdAboveEveryExistingRelative ==
  \A p \in Calls("new") :
    (last[p].exit = 0 /\ ~last[p].config.absolutePath /\ dirState = "ok") =>
      /\ \A i \in 1..Len(last[p].before) :
           /\ last[p].before[i].name # last[p].filename
           /\ IsTicketFile(last[p].before[i].name) =>
                NumberOf(last[p].before[i].name) < NumberOf(last[p].filename)
      /\ NumberOf(last[p].filename) =
           Greatest({0} \cup {NumberOf(last[p].before[i].name) :
                                i \in 1..Len(last[p].before)}) + 1

\* C27 as claimed: whenever resolveTicketId returns an identity, the full run of
\* digits after 'TKT-' in the returned file name equals the digits of the returned
\* id, for every directory content including ids of more than three digits.
ResolvedFileCarriesItsId ==
  \A p \in Calls("resolve") :
    last[p].result.kind = "identity" =>
      CapturedDigits(last[p].result.file) = SubstringFrom(last[p].result.id, Len(TKT))

\* the same, for directories whose ticket files carry at most three digits
ResolvedFileCarriesItsIdUpToThreeDigits ==
  \A p \in Calls("resolve") :
    (/\ last[p].result.kind = "identity"
     /\ \A i \in 1..Len(dir) : Len(CapturedDigits(dir[i].name)) <= IdWidth) =>
      CapturedDigits(last[p].result.file) = SubstringFrom(last[p].result.id, Len(TKT))

\* vibe new created TKT-1000 after TKT-999, and looking up 100 returned the new file
LookupReturnedLaterTicket ==
  \E p \in Calls("resolve") :
    /\ last[p].input = Chars("100")
    /\ last[p].result.kind = "identity"
    /\ last[p].result.id = Chars("TKT-100")
    /\ last[p].result.file = Chars("TKT-1000-fix-bug.md")

--------------------------------------------------------------------------
(* The round trip of parseTicket and the text updateTicket writes *)

\* the updates that wrote a file and reported success
Wrote == {p \in Succeeded : last[p].plan.kind = "write"}

\* header line i of the original is kept, or starts with a target key and holds the
\* line stored for it
KeptOrRewritten(u, old, new) ==
  \/ new = old
  \/ \E k \in TargetKeys(u) : StartsWith(old, k \o Chars(":")) /\ new = StoredLine(u, k)

\* a line added at the end of the header: the line stored for a target key that no
\* line of the original header starts with
AppendedFor(u, new) ==
  \E k \in TargetKeys(u) :
    /\ LinesFor(u.ticketData.yamlLines, k) = {}
    /\ new = StoredLine(u, k)

\* the body lines up to and including the first header of a replaced section
UntouchedPrefix(u) ==
  LET lines == u.ticketData.contentLines
      hits == {i \in 1..Len(lines) :
                 \E j \in 1..Len(u.plan.updatedSections) :
                   Trim(lines[i]) = SectionHeader(u.plan.updatedSections[j])}
  IN  IF hits = {} THEN Len(lines) ELSE Least(hits)

\* the written lines against the original ones
DiffersOnlyWhereUpdated(u, old, new) ==
  /\ new[1] = DELIM
  /\ \A i \in 1..Len(u.ticketData.yamlLines) : KeptOrRewritten(u, old[i + 1], new[i + 1])
  /\ \A i \in (Len(u.ticketData.yamlLines) + 2)..(ClosingLine(new) - 1) :
       AppendedFor(u, new[i])
  /\ SubSeq(new, ClosingLine(new) + 1, ClosingLine(new) + UntouchedPrefix(u))
       = SubSeq(u.ticketData.contentLines, 1, UntouchedPrefix(u))
  /\ Len(u.plan.updatedSections) = 0 =>
       Len(new) = ClosingLine(new) + Len(u.ticketData.contentLines)

\* C28: for every text parseTicket accepts, joining '---', the parsed header lines,
\* '---' and the parsed body lines with newlines gives the original text byte for
\* byte, so the text an update writes differs from the original only in the lines
\* the update rewrote or appended.
ParseJoinRoundTrip ==
  /\ \A p \in Calls("parse") :
       last[p].result.kind = "doc" =>
         JoinLines(<<DELIM>> \o last[p].result.yamlLines \o <<DELIM>>
                   \o last[p].result.contentLines) = last[p].read[1]
  /\ \A p \in Wrote :
       DiffersOnlyWhereUpdated(last[p], SplitLines(last[p].ticketData.fullContent),
                               SplitLines(NewText(last[p])))

\* an update that names no header key and no section rewrote the updated_at line of
\* the standard ticket and nothing else
OnlyTimestampLineDiffers ==
  \E p \in Wrote :
    /\ last[p].ticketData.fullContent = TextStandard
    /\ last[p].updates = <<E("status", "done")>>
    /\ Holds(last[p].result.newPath, NewText(last[p]))
    /\ {i \in 1..Len(SplitLines(TextStandard)) :
          SplitLines(NewText(last[p]))[i] # SplitLines(TextStandard)[i]} = {6}
    /\ Len(SplitLines(NewText(last[p]))) = Len(SplitLines(TextStandard))

--------------------------------------------------------------------------
(* What a fix pass leaves for the next validation *)

\* the errors of validating the i-th file of the run without --fix, as the file was
\* when the run started
ErrorsBefore(run, i) ==
  validateTicketFile(Call([RulesOf(run) EXCEPT !.fixMode = FALSE], run.files[i], TRUE,
                          TRUE, ToISOString(clock)),
                     TextIn(run.before, run.files[i])).result.errors

\* the header fields the file had keep their values and the body keeps its text
\* the same value; two dates are the same when they are the same instant
SameValue(a, b) ==
  \/ a = b
  \/ a.t = "date" /\ b.t = "date" /\ DateToISO(a.s) = DateToISO(b.s)

PresentKept(before, after) ==
  /\ \A k \in 1..Len(OwnEntries(LoadedHeader(before))) :
       SameValue(Field(LoadedHeader(after), OwnEntries(LoadedHeader(before))[k].key),
                 OwnEntries(LoadedHeader(before))[k].value)
  /\ StartsWith(BodyOf(after), BodyOf(before))

\* C29: a fix pass never introduces a validation error: every error reported when
\* validating the file written by fix was already reported for the file before the
\* fix (the values supplied for id, status and priority meet the validator's ID
\* format and enum rules), and the fields and body text already present keep their
\* values.
FixIntroducesNoError ==
  \A i \in 1..Len(dir) :
    FixedThenValidated(i) =>
      /\ \A k \in 1..Len(last[2].results[i].errors) :
           InSeq(ErrorsBefore(last[1], i), last[2].results[i].errors[k])
      /\ PresentKept(TextIn(last[1].before, last[1].files[i]),
                     TextIn(last[1].after, last[1].files[i]))

\* the second half of C29 alone: what was present is kept
FixKeepsWhatWasPresent ==
  \A i \in 1..Len(dir) :
    FixedThenValidated(i) =>
      PresentKept(TextIn(last[1].before, last[1].files[i]),
                  TextIn(last[1].after, last[1].files[i]))

--------------------------------------------------------------------------
(* The document structure as the validator and as the parser see it *)

\* validateTicketFile without --fix on a readable file with the given text, under the
\* rules of the standard template
ValidatedText(text) ==
  validateTicketFile(Call(RulesOf([fixMode |-> FALSE, config |-> RaceConfig]),
                          SubjectName, TRUE, TRUE, ToISOString(clock)),
                     text).result

\* the validator found the frontmatter delimiters
DelimitersAccepted(text) ==
  /\ NoErrorAbout(ValidatedText(text), Chars("File must start"))
  /\ NoErrorAbout(ValidatedText(text), Chars("Invalid frontmatter format"))

\* the header block the validator loads is the parser's header lines, and the body it
\* validates is the parser's body lines, each after the newline that ends '---'
SameBlocks(text, doc) ==
  /\ SplitLines(SplitOn(text, DELIM)[2]) = <<<<>>>> \o doc.yamlLines \o <<<<>>>>
  /\ SplitLines(BodyOf(text)) = <<<<>>>> \o doc.contentLines

\* C30: the validator and the parser agree on document structure: for every file
\* text the validator accepts the frontmatter delimiters exactly when parseTicket
\* does, and the header block and body it validates are the lines the parser
\* yields, the header ending only at a line that is exactly '---'.
ValidatorAgreesWithParser ==
  \A p \in Calls("parse") :
    Len(last[p].read) = 1 =>
      /\ DelimitersAccepted(last[p].read[1]) <=> last[p].result.kind = "doc"
      /\ last[p].result.kind = "doc" => SameBlocks(last[p].read[1], last[p].result)

\* '---' occurs in the text at most twice, each time as a whole line
PlainDelimiters(text) ==
  /\ Len(SplitOn(text, DELIM)) <= 3
  /\ Cardinality({n \in 1..Len(SplitLines(text)) : SplitLines(text)[n] = DELIM})
       = Len(SplitOn(text, DELIM)) - 1

\* the same, for texts in which '---' occurs only as delimiter lines
ValidatorAgreesOnPlainTexts ==
  \A p \in Calls("parse") :
    (Len(last[p].read) = 1 /\ PlainDelimiters(last[p].read[1])) =>
      /\ DelimitersAccepted(last[p].read[1]) <=> last[p].result.kind = "doc"
      /\ last[p].result.kind = "doc" => SameBlocks(last[p].read[1], last[p].result)

====
